---------------------------- MODULE Spec2Model ----------------------------
(***************************************************************************)
(* Elite Document Polisher v3.0 (scripts/apply_brand.py): brand lookup,    *)
(* quality validation, table column widths, document reconstruction and    *)
(* batch processing.                                                       *)
(*                                                                         *)
(* Python strings are sequences of one-character strings, so that lower(), *)
(* strip(), startswith(), `in`, split() and join() are computed rather     *)
(* than assumed.                                                           *)
(***************************************************************************)
EXTENDS Integers, Sequences, FiniteSets, TLC

VARIABLES
    config_file,    \* templates/brand-mapping.json: "present" or "missing"
    load_name,      \* argument of the load_brand_config call under study
    load_result,    \* its outcome, NoResult before the call
    doc,            \* the python-docx document being built or validated
    issues,         \* QualityValidator.issues
    quality_level,  \* the level validate_document returned last, "none" before
    validate_calls, \* number of validate_document calls made on the validator
    py_sum,         \* the interpreter's float summation: "naive" or "neumaier"
    table,          \* the table handed to _optimize_column_widths
    optimized,      \* whether _optimize_column_widths has run on it
    pc,             \* where the apply_brand_to_docx call stands, "idle" outside
    brand_name,     \* its arguments: the brand id,
    output_path,    \*   and the path to save to
    input_file,     \* the file at input_path: missing, or a .docx and its body
    brand,          \* the loaded brand profile
    source_doc,     \* Document(input_path)
    elem,           \* position of the forward pass in source_doc's body
    first_h1_seen,  \* the flag of the forward pass
    tables_to_process, \* the new tables, as positions in doc's body
    new_blocks,     \* for each source block handled, the position in doc's body
                    \*   of the new_para / new_table made for it, 0 if none
    outcome,        \* what the call returned or raised, NoResult before
    files,          \* the .docx files written so far: path and content
    batch_pc,       \* where the apply_multiple_brands call stands
    brands,         \* its arguments: the brand list,
    output_prefix,  \*   and the output prefix
    brand_index,    \* position of its loop in brands
    results,        \* its result list
    stdout,         \* the lines it has printed, one record each
    main_pc,        \* where the run of main stands, "idle" outside
    argv,           \* sys.argv[1:] of the run
    exit_code       \* what main returned, NoResult before

load_vars == <<config_file, load_name, load_result>>

validate_vars == <<doc, issues, quality_level, validate_calls>>

width_vars == <<py_sum, table, optimized>>

apply_vars == <<pc, brand_name, output_path, input_file, brand, source_doc, elem,
                first_h1_seen, tables_to_process, new_blocks, outcome, files>>

main_vars == <<main_pc, argv, exit_code>>

batch_vars == <<batch_pc, brands, output_prefix, brand_index, results, stdout,
                main_vars>>

vars == <<load_vars, validate_vars, width_vars, apply_vars, batch_vars>>

NoResult == [kind |-> "none"]

(***************************************************************************)
(* Strings                                                                 *)
(***************************************************************************)

\* ASCII order of the characters the model uses (sorted() compares code points).
CharOrder == <<" ", "#", ",", "0", "1", "2", "3", "A", "B", "C", "E", "G",
               "L", "M", "O", "X", "_", "a", "b", "c", "e", "g", "l", "m",
               "o", "x">>

UpperChars == <<"A", "B", "C", "E", "G", "L", "M", "O", "X">>

LowerChars == <<"a", "b", "c", "e", "g", "l", "m", "o", "x">>

Ord(c) == CHOOSE i \in 1..Len(CharOrder) : CharOrder[i] = c

\* str.lower() on one character
LowerChar(c) ==
    IF \E i \in 1..Len(UpperChars) : UpperChars[i] = c
    THEN LowerChars[CHOOSE i \in 1..Len(UpperChars) : UpperChars[i] = c]
    ELSE c

\* str.lower()
Lower(s) == [i \in 1..Len(s) |-> LowerChar(s[i])]

\* s < t in Python's string order
RECURSIVE StrLess(_, _)
StrLess(s, t) ==
    IF s = <<>> THEN t # <<>>
    ELSE IF t = <<>> THEN FALSE
    ELSE IF s[1] # t[1] THEN Ord(s[1]) < Ord(t[1])
    ELSE StrLess(Tail(s), Tail(t))

\* sorted(keys): the keys in ascending string order
RECURSIVE Sorted(_)
Sorted(S) ==
    IF S = {} THEN <<>>
    ELSE LET least == CHOOSE x \in S : \A y \in S \ {x} : StrLess(x, y)
         IN  <<least>> \o Sorted(S \ {least})

\* sep.join(parts)
RECURSIVE Join(_, _)
Join(sep, parts) ==
    IF parts = <<>> THEN <<>>
    ELSE IF Len(parts) = 1 THEN parts[1]
    ELSE parts[1] \o sep \o Join(sep, Tail(parts))

\* sub in s
Contains(s, sub) ==
    \E i \in 0..(Len(s) - Len(sub)) :
        \A k \in 1..Len(sub) : s[i + k] = sub[k]

\* s.startswith(prefix)
StartsWith(s, prefix) ==
    /\ Len(prefix) <= Len(s)
    /\ \A k \in 1..Len(prefix) : s[k] = prefix[k]

(***************************************************************************)
(* Brand registry (templates/brand-mapping.json) and load_brand_config     *)
(***************************************************************************)

Acme == <<"a", "c", "m", "e">>

Globex == <<"g", "l", "o", "b", "e", "x">>

\* config['brands']: id -> profile.  Colours are '#RRGGBB' strings.
BrandRegistry ==
    (Acme :> [name |-> "Acme",
              colors |-> [primary |-> <<"#", "1", "1", "2", "2", "3", "3">>,
                          accent |-> <<"#", "A", "A", "0", "0", "0", "0">>,
                          textPrimary |-> <<"#", "1", "A", "1", "A", "1", "A">>,
                          textSecondary |-> <<"#", "6", "6", "6", "6", "6", "6">>],
              typography |-> [headingFont |-> "Georgia", bodyFont |-> "Arial"],
              styles |-> [h1 |-> [size |-> 18, color |-> <<"#", "1", "1", "2", "2", "3", "3">>, bold |-> TRUE],
                          h2 |-> [size |-> 14, color |-> <<"#", "2", "2", "3", "3", "4", "4">>, bold |-> TRUE],
                          h3 |-> [size |-> 12, color |-> <<"#", "3", "3", "4", "4", "5", "5">>, bold |-> FALSE],
                          body |-> [size |-> 11, color |-> <<"#", "3", "3", "3", "3", "3", "3">>]]])
    @@
    (Globex :> [name |-> "Globex",
                colors |-> [primary |-> <<"#", "0", "0", "5", "5", "A", "A">>,
                            accent |-> <<"#", "F", "F", "8", "8", "0", "0">>,
                            textPrimary |-> <<"#", "0", "0", "0", "0", "0", "0">>,
                            textSecondary |-> <<"#", "5", "5", "5", "5", "5", "5">>],
                typography |-> [headingFont |-> "Helvetica", bodyFont |-> "Helvetica"],
                styles |-> [h1 |-> [size |-> 20, color |-> <<"#", "0", "0", "5", "5", "A", "A">>, bold |-> FALSE],
                            h2 |-> [size |-> 16, color |-> <<"#", "0", "0", "5", "5", "A", "A">>, bold |-> FALSE],
                            h3 |-> [size |-> 13, color |-> <<"#", "0", "0", "0", "0", "0", "0">>, bold |-> TRUE],
                            body |-> [size |-> 10, color |-> <<"#", "0", "0", "0", "0", "0", "0">>]]])

BrandIds == DOMAIN BrandRegistry

\* f"Brand '{brand_name}' not found.\nAvailable brands: {available}"
NotFoundMessage(requested, available) ==
    <<"B", "r", "a", "n", "d", " ", "'">>
        \o requested
        \o <<"'", " ", "n", "o", "t", " ", "f", "o", "u", "n", "d", ".", "\n">>
        \o <<"A", "v", "a", "i", "l", "a", "b", "l", "e", " ", "b", "r", "a", "n", "d", "s", ":", " ">>
        \o available

\* load_brand_config without the lower-casing of the requested id
load_brand_config_exact(cfg, requested) ==
    IF cfg = "missing"
    THEN [kind |-> "raise", exc |-> "FileNotFoundError", msg |-> <<>>]
    ELSE IF requested \notin DOMAIN BrandRegistry
         THEN [kind |-> "raise", exc |-> "ValueError",
               msg |-> NotFoundMessage(requested,
                           Join(<<",", " ">>, Sorted(DOMAIN BrandRegistry)))]
         ELSE [kind |-> "return", value |-> BrandRegistry[requested]]

\* load_brand_config whose error message lists only the first registered id
load_brand_config_short(cfg, requested) ==
    IF cfg = "missing"
    THEN [kind |-> "raise", exc |-> "FileNotFoundError", msg |-> <<>>]
    ELSE IF Lower(requested) \notin DOMAIN BrandRegistry
         THEN [kind |-> "raise", exc |-> "ValueError",
               msg |-> NotFoundMessage(requested,
                           Sorted(DOMAIN BrandRegistry)[1])]
         ELSE [kind |-> "return", value |-> BrandRegistry[Lower(requested)]]

\* load_brand_config falling back on the first profile for an unknown id
load_brand_config_default(cfg, requested) ==
    IF cfg = "missing"
    THEN [kind |-> "raise", exc |-> "FileNotFoundError", msg |-> <<>>]
    ELSE IF Lower(requested) \notin DOMAIN BrandRegistry
         THEN [kind |-> "return", value |-> BrandRegistry[Sorted(DOMAIN BrandRegistry)[1]]]
         ELSE [kind |-> "return", value |-> BrandRegistry[Lower(requested)]]

\* load_brand_config(requested), given whether the registry file exists
load_brand_config(cfg, requested) ==
    IF cfg = "missing"
    THEN [kind |-> "raise", exc |-> "FileNotFoundError", msg |-> <<>>]
    ELSE LET brand_name_lower == Lower(requested)
         IN  IF brand_name_lower \notin DOMAIN BrandRegistry
             THEN [kind |-> "raise", exc |-> "ValueError",
                   msg |-> NotFoundMessage(requested,
                               Join(<<",", " ">>, Sorted(DOMAIN BrandRegistry)))]
             ELSE [kind |-> "return", value |-> BrandRegistry[brand_name_lower]]

(***************************************************************************)
(* Python float: IEEE-754 binary64, every operation rounded to nearest,    *)
(* ties to even.  A float is [neg, m, e] of value (-1)^neg * m * 2^e with  *)
(* m = 0 or 2^52 <= m < 2^53.  m is a natural number written in base 2^16, *)
(* least significant digit first, without leading zero digits (<<>> is 0). *)
(* The values met here are finite and far from overflow and underflow.     *)
(***************************************************************************)

LimbBase == 65536

LimbBits == 16

MantissaBits == 53

RECURSIVE Trim(_)
Trim(a) == IF a # <<>> /\ a[Len(a)] = 0 THEN Trim(SubSeq(a, 1, Len(a) - 1)) ELSE a

RECURSIVE BigOfInt(_)
BigOfInt(n) == IF n = 0 THEN <<>> ELSE <<n % LimbBase>> \o BigOfInt(n \div LimbBase)

RECURSIVE BigToInt(_)
BigToInt(a) == IF a = <<>> THEN 0 ELSE a[1] + LimbBase * BigToInt(Tail(a))

Limb(a, i) == IF i <= Len(a) THEN a[i] ELSE 0

RECURSIVE BigAddFrom(_, _, _, _)
BigAddFrom(a, b, i, carry) ==
    IF i > Len(a) /\ i > Len(b)
    THEN (IF carry = 0 THEN <<>> ELSE <<carry>>)
    ELSE LET t == Limb(a, i) + Limb(b, i) + carry
         IN  <<t % LimbBase>> \o BigAddFrom(a, b, i + 1, t \div LimbBase)

BigAdd(a, b) == BigAddFrom(a, b, 1, 0)

\* a - b for a >= b
RECURSIVE BigSubFrom(_, _, _, _)
BigSubFrom(a, b, i, borrow) ==
    IF i > Len(a) THEN <<>>
    ELSE LET t == Limb(a, i) - Limb(b, i) - borrow
         IN  IF t < 0
             THEN <<t + LimbBase>> \o BigSubFrom(a, b, i + 1, 1)
             ELSE <<t>> \o BigSubFrom(a, b, i + 1, 0)

BigSub(a, b) == Trim(BigSubFrom(a, b, 1, 0))

\* -1, 0 or 1 as a < b, a = b or a > b
RECURSIVE BigCmpFrom(_, _, _)
BigCmpFrom(a, b, i) ==
    IF i = 0 THEN 0
    ELSE IF a[i] < b[i] THEN -1
    ELSE IF a[i] > b[i] THEN 1
    ELSE BigCmpFrom(a, b, i - 1)

BigCmp(a, b) ==
    IF Len(a) < Len(b) THEN -1
    ELSE IF Len(a) > Len(b) THEN 1
    ELSE BigCmpFrom(a, b, Len(a))

\* a * k for a small k (k <= 2^15)
RECURSIVE BigMulSmallFrom(_, _, _, _)
BigMulSmallFrom(a, k, i, carry) ==
    IF i > Len(a)
    THEN BigOfInt(carry)
    ELSE LET t == a[i] * k + carry
         IN  <<t % LimbBase>> \o BigMulSmallFrom(a, k, i + 1, t \div LimbBase)

BigMulSmall(a, k) == IF k = 0 THEN <<>> ELSE BigMulSmallFrom(a, k, 1, 0)

\* a \div k for a small k (k <= 2^15), from the most significant digit down
RECURSIVE BigDivSmallFrom(_, _, _, _)
BigDivSmallFrom(a, k, i, rem) ==
    IF i = 0 THEN <<>>
    ELSE LET t == rem * LimbBase + a[i]
         IN  BigDivSmallFrom(a, k, i - 1, t % k) \o <<t \div k>>

BigDivSmall(a, k) == Trim(BigDivSmallFrom(a, k, Len(a), 0))

\* a * 2^d
BigShl(a, d) ==
    IF a = <<>> THEN <<>>
    ELSE [i \in 1..(d \div LimbBits) |-> 0] \o BigMulSmall(a, 2 ^ (d % LimbBits))

\* a \div 2^d
BigShr(a, d) ==
    IF d \div LimbBits >= Len(a) THEN <<>>
    ELSE BigDivSmall(SubSeq(a, (d \div LimbBits) + 1, Len(a)), 2 ^ (d % LimbBits))

RECURSIVE IntBitLen(_)
IntBitLen(n) == IF n = 0 THEN 0 ELSE 1 + IntBitLen(n \div 2)

\* number of binary digits of a
BitLen(a) == IF a = <<>> THEN 0 ELSE LimbBits * (Len(a) - 1) + IntBitLen(a[Len(a)])

\* binary digit i of a, digit 0 the least significant
BigBit(a, i) == (Limb(a, (i \div LimbBits) + 1) \div (2 ^ (i % LimbBits))) % 2

\* a % 2^d = 0
LowBitsZero(a, d) == BigShl(BigShr(a, d), d) = a

FZero == [neg |-> FALSE, m |-> <<>>, e |-> 0]

\* q plus one where the dropped digits call for rounding up: more than half,
\* or exactly half with q odd
RoundedUp(q, half, sticky) ==
    IF half /\ (sticky \/ BigBit(q, 0) = 1) THEN BigAdd(q, <<1>>) ELSE q

\* m without its d lowest digits (d >= 1), rounded to nearest, ties to even
RoundDropping(m, d) ==
    RoundedUp(BigShr(m, d), BigBit(m, d - 1) = 1, ~LowBitsZero(m, d - 1))

\* the float of mantissa r, which rounding up may have carried to 54 digits
Renormalized(neg, r, e) ==
    IF BitLen(r) > MantissaBits
    THEN [neg |-> neg, m |-> BigShr(r, 1), e |-> e + 1]
    ELSE [neg |-> neg, m |-> r, e |-> e]

\* FRound for an m of len > 0 binary digits
FRoundLen(neg, m, e, len) ==
    IF len <= MantissaBits
    THEN [neg |-> neg, m |-> BigShl(m, MantissaBits - len), e |-> e - (MantissaBits - len)]
    ELSE Renormalized(neg, RoundDropping(m, len - MantissaBits),
                      e + (len - MantissaBits))

\* the float nearest to (-1)^neg * m * 2^e, ties to even
FRound(neg, m, e) ==
    IF m = <<>> THEN FZero ELSE FRoundLen(neg, m, e, BitLen(m))

\* float(n) for an int n >= 0
FOfInt(n) == FRound(FALSE, BigOfInt(n), 0)

FNeg(a) == IF a.m = <<>> THEN a ELSE [a EXCEPT !.neg = ~a.neg]

\* the sum of two numbers of mantissas am, bm on the common exponent emin,
\* c being BigCmp(am, bm)
FAddCompared(aneg, am, bneg, bm, emin, c) ==
    FRound(IF aneg = bneg \/ c >= 0 THEN aneg ELSE bneg,
           IF aneg = bneg THEN BigAdd(am, bm)
           ELSE IF c = 0 THEN <<>>
           ELSE IF c > 0 THEN BigSub(am, bm)
           ELSE BigSub(bm, am),
           emin)

FAddAligned(aneg, am, bneg, bm, emin) ==
    FAddCompared(aneg, am, bneg, bm, emin, BigCmp(am, bm))

\* a + b
FAdd(a, b) ==
    IF a.m = <<>> THEN b
    ELSE IF b.m = <<>> THEN a
    ELSE LET emin == IF a.e < b.e THEN a.e ELSE b.e
         IN  FAddAligned(a.neg, BigShl(a.m, a.e - emin),
                         b.neg, BigShl(b.m, b.e - emin), emin)

\* a - b
FSub(a, b) == FAdd(a, FNeg(b))

\* |a| < |b| for a, b other than zero: mantissas have MantissaBits digits
MagnitudeLess(a, b) ==
    a.e < b.e \/ (a.e = b.e /\ BigCmp(a.m, b.m) < 0)

\* a < b
FLess(a, b) ==
    IF a.m = <<>> THEN b.m # <<>> /\ ~b.neg
    ELSE IF b.m = <<>> THEN a.neg
    ELSE IF a.neg # b.neg THEN a.neg
    ELSE IF a.neg THEN MagnitudeLess(b, a)
    ELSE MagnitudeLess(a, b)

\* abs(a)
FAbs(a) == [a EXCEPT !.neg = FALSE]

RECURSIVE DivSteps(_, _, _)

\* the digits of two runs of division steps put together, k the length of
\* the second run
DivJoin(first, second, k) ==
    [quo |-> BigAdd(BigShl(first.quo, k), second.quo), rem |-> second.rem]

\* k more division steps after those that gave first
DivRest(first, den, k) == DivJoin(first, DivSteps(first.rem, den, k), k)

\* n steps of binary long division of rem by den (rem < 2 * den): the n
\* quotient digits as a number, and the remainder left, doubled at each step
DivSteps(rem, den, n) ==
    IF n = 1
    THEN (IF BigCmp(rem, den) >= 0
          THEN [quo |-> <<1>>, rem |-> BigShl(BigSub(rem, den), 1)]
          ELSE [quo |-> <<>>, rem |-> BigShl(rem, 1)])
    ELSE DivRest(DivSteps(rem, den, n \div 2), den, n - (n \div 2))

\* the quotient digits r.quo with one more digit telling whether a
\* remainder is left, rounded
FDivRounded(r, e) ==
    FRound(FALSE,
           IF r.rem = <<>> THEN BigShl(r.quo, 1)
           ELSE BigAdd(BigShl(r.quo, 1), <<1>>),
           e)

\* a / b for a >= 0 and b > 0: 56 quotient digits and whether anything is
\* left, which decide the rounding
FDiv(a, b) ==
    IF a.m = <<>> THEN FZero
    ELSE FDivRounded(DivSteps(a.m, b.m, MantissaBits + 3),
                     a.e - b.e - (MantissaBits + 2) - 1)

\* a * k for an int 0 <= k <= 2^15
FMulInt(a, k) == FRound(a.neg, BigMulSmall(a.m, k), a.e)

\* int(a) for a >= 0: truncation
FTrunc(a) ==
    IF a.m = <<>> THEN 0
    ELSE IF a.e >= 0 THEN BigToInt(BigShl(a.m, a.e))
    ELSE BigToInt(BigShr(a.m, 0 - a.e))

\* a decimal literal num/den written to at most 17 digits: the nearest float
FLiteral(num, den) == FDiv(FOfInt(num), FOfInt(den))

\* max(a, b) and min(a, b) of Python: the first argument unless the second
\* is strictly larger (smaller)
FMax(a, b) == IF FLess(a, b) THEN b ELSE a

FMin(a, b) == IF FLess(b, a) THEN b ELSE a

\* sum(values) before Python 3.12: 0 + v1 + v2 + ... from left to right
RECURSIVE SumNaive(_, _)
SumNaive(values, acc) ==
    IF values = <<>> THEN acc
    ELSE SumNaive(Tail(values), FAdd(acc, values[1]))

\* c += (big - t) + small
Compensated(c, big, small, t) == FAdd(c, FAdd(FSub(big, t), small))

RECURSIVE SumNeumaier(_, _, _)

\* one step of the compensated sum, t being f_result + x
NeumaierStep(values, f_result, c, x, t) ==
    SumNeumaier(Tail(values), t,
        Compensated(c,
                    IF ~FLess(FAbs(f_result), FAbs(x)) THEN f_result ELSE x,
                    IF ~FLess(FAbs(f_result), FAbs(x)) THEN x ELSE f_result,
                    t))

\* sum(values) from Python 3.12 on: Neumaier's compensated summation
SumNeumaier(values, f_result, c) ==
    IF values = <<>>
    THEN (IF c.m # <<>> THEN FAdd(f_result, c) ELSE f_result)
    ELSE NeumaierStep(values, f_result, c, values[1], FAdd(f_result, values[1]))

\* sum(values) of floats, by the interpreter's summation algorithm
FSum(py, values) ==
    IF py = "naive" THEN SumNaive(values, FZero)
    ELSE SumNeumaier(values, FZero, FZero)

(***************************************************************************)
(* More of str: whitespace, strip(), split(), int()                        *)
(***************************************************************************)

Whitespace == {" ", "\n", "\t"}

Digits == <<"0", "1", "2", "3", "4", "5", "6", "7", "8", "9">>

RECURSIVE LStrip(_)
LStrip(s) ==
    IF s # <<>> /\ s[1] \in Whitespace THEN LStrip(Tail(s)) ELSE s

RECURSIVE RStrip(_)
RStrip(s) ==
    IF s # <<>> /\ s[Len(s)] \in Whitespace
    THEN RStrip(SubSeq(s, 1, Len(s) - 1))
    ELSE s

\* s.strip()
Strip(s) == RStrip(LStrip(s))

\* s.split(): the maximal runs of non-whitespace characters, in order
RECURSIVE Split(_)
Split(s) ==
    LET t == LStrip(s)
    IN  IF t = <<>> THEN <<>>
        ELSE LET stop == IF \E i \in 1..Len(t) : t[i] \in Whitespace
                         THEN (CHOOSE i \in 1..Len(t) :
                                  /\ t[i] \in Whitespace
                                  /\ \A k \in 1..(i - 1) : t[k] \notin Whitespace) - 1
                         ELSE Len(t)
             IN  <<SubSeq(t, 1, stop)>> \o Split(SubSeq(t, stop + 1, Len(t)))

IsDigit(c) == \E i \in 1..Len(Digits) : Digits[i] = c

DigitValue(c) == (CHOOSE i \in 1..Len(Digits) : Digits[i] = c) - 1

\* int(s) succeeds on a non-empty string of decimal digits and raises
\* ValueError on the rest
IsInt(s) == s # <<>> /\ \A i \in 1..Len(s) : IsDigit(s[i])

RECURSIVE ParseInt(_)
ParseInt(s) ==
    IF s = <<>> THEN 0
    ELSE 10 * ParseInt(SubSeq(s, 1, Len(s) - 1)) + DigitValue(s[Len(s)])

(***************************************************************************)
(* The python-docx document                                                *)
(*                                                                         *)
(* A document is its body, a sequence of blocks in document order, and the *)
(* left margin of its one section.  A paragraph has a style name and runs; *)
(* a table has the number of its grid columns, len(table.columns), and     *)
(* rows of cells, each cell holding paragraphs.  The formatting attributes *)
(* of a run that are not set hold "None", 0 or <<>>.                       *)
(***************************************************************************)

\* Length in EMU of a number of hundredths of an inch: Inches(h / 100)
Inches100(h) == h * 9144

\* a run as add_run(text) leaves it: no character formatting of its own
NewRun(text) ==
    [text |-> text, font |-> "", size |-> 0, color |-> <<>>, bold |-> "None",
     italic |-> "None", underline |-> "None", brk |-> "none"]

\* a paragraph as add_paragraph(style = style) leaves it, with the given runs
NewParagraph(style, runs) ==
    [type |-> "p", style |-> style, runs |-> runs, alignment |-> "None",
     space_before |-> -1, space_after |-> -1, indent |-> 0,
     widow_control |-> FALSE, keep_next |-> FALSE]

\* a table cell holding the given paragraphs
NewCell(paras) ==
    [paras |-> paras, width |-> 0, shading |-> <<>>, bottom_border |-> <<>>]

NewRow(cells) == [cells |-> cells, height |-> 0, height_rule |-> "None"]

\* a table with grid_cols grid columns and the given rows
NewTable(grid_cols, rows) ==
    [type |-> "tbl", table_style |-> "None", alignment |-> "None", autofit |-> TRUE,
     tblW |-> 0, borders |-> [top |-> <<>>, bottom |-> <<>>, insideH |-> <<>>],
     cell_margins |-> [top |-> 0, bottom |-> 0, left |-> 0, right |-> 0],
     grid_cols |-> grid_cols, rows |-> rows]

\* no apply_brand_to_docx call under study
ApplyIdle ==
    /\ pc = "idle"
    /\ brand_name = <<>>
    /\ output_path = <<>>
    /\ input_file = [kind |-> "missing"]
    /\ brand = NoResult
    /\ source_doc = NoResult
    /\ elem = 0
    /\ first_h1_seen = FALSE
    /\ tables_to_process = <<>>
    /\ new_blocks = <<>>
    /\ outcome = NoResult
    /\ files = {}

\* no apply_multiple_brands call under study
BatchIdle ==
    /\ batch_pc = "idle"
    /\ brands = <<>>
    /\ output_prefix = <<>>
    /\ brand_index = 0
    /\ results = <<>>
    /\ stdout = <<>>
    /\ main_pc = "idle"
    /\ argv = <<>>
    /\ exit_code = NoResult

StyleNormal == <<"N", "o", "r", "m", "a", "l">>

StyleTitle == <<"T", "i", "t", "l", "e">>

StyleSubtitle == <<"S", "u", "b", "t", "i", "t", "l", "e">>

StyleHeading1 == <<"H", "e", "a", "d", "i", "n", "g", " ", "1">>

StyleHeading2 == <<"H", "e", "a", "d", "i", "n", "g", " ", "2">>

StyleHeading3 == <<"H", "e", "a", "d", "i", "n", "g", " ", "3">>

StyleListBullet == <<"L", "i", "s", "t", " ", "B", "u", "l", "l", "e", "t">>

StyleListNumber == <<"L", "i", "s", "t", " ", "N", "u", "m", "b", "e", "r">>

WordHeading == <<"H", "e", "a", "d", "i", "n", "g">>

WordQuote == <<"Q", "u", "o", "t", "e">>

\* a style of the default template, before the brand is applied to it; the
\* attributes the program reads back later are all ones it has set itself
TemplateStyle ==
    [font |-> "", size |-> 0, bold |-> "None", color |-> <<>>,
     alignment |-> "None", space_before |-> -1, space_after |-> -1,
     line_spacing |-> 0, widow_control |-> FALSE, keep_with_next |-> FALSE]

\* Document(): the default template with its styles, an empty body, one
\* section with margins of 1in (top, bottom) and 1.25in (left, right)
NewDocument ==
    [body |-> <<>>,
     styles |-> [name \in {StyleNormal, StyleTitle, StyleHeading1, StyleHeading2,
                           StyleHeading3, StyleListBullet, StyleListNumber}
                 |-> TemplateStyle],
     top_margin |-> Inches100(100), bottom_margin |-> Inches100(100),
     left_margin |-> Inches100(125), right_margin |-> Inches100(125)]

\* no load_brand_config call under study
LoadIdle ==
    /\ config_file = "present"
    /\ load_name = <<>>
    /\ load_result = NoResult

\* no validator call under study
ValidateIdle ==
    /\ doc = NewDocument
    /\ issues = <<>>
    /\ quality_level = "none"
    /\ validate_calls = 0

\* no _optimize_column_widths call under study
WidthIdle ==
    /\ py_sum = "naive"
    /\ table = NewTable(0, <<>>)
    /\ optimized = FALSE

\* run.text: a break reads as a newline
RunText(run) == IF run.brk = "page" THEN <<"\n">> ELSE run.text

RECURSIVE ConcatText(_)
ConcatText(runs) ==
    IF runs = <<>> THEN <<>> ELSE RunText(runs[1]) \o ConcatText(Tail(runs))

\* paragraph.text
ParaText(para) == ConcatText(para.runs)

\* cell.text: "\n".join(p.text for p in cell.paragraphs)
CellText(cell) ==
    Join(<<"\n">>, [i \in 1..Len(cell.paras) |-> ParaText(cell.paras[i])])

\* doc.paragraphs: the paragraphs of the body, without those inside tables
Paragraphs(d) == SelectSeq(d.body, LAMBDA b : b.type = "p")

\* doc.tables
Tables(d) == SelectSeq(d.body, LAMBDA b : b.type = "tbl")

(***************************************************************************)
(* Colours, points, spacing                                                *)
(***************************************************************************)

HexDigits == <<"0", "1", "2", "3", "4", "5", "6", "7", "8", "9",
               "A", "B", "C", "D", "E", "F">>

HexDigitsLower == <<"0", "1", "2", "3", "4", "5", "6", "7", "8", "9",
                    "a", "b", "c", "d", "e", "f">>

IsHexDigit(c) ==
    \E i \in 1..16 : HexDigits[i] = c \/ HexDigitsLower[i] = c

HexDigitValue(c) ==
    (CHOOSE i \in 1..16 : HexDigits[i] = c \/ HexDigitsLower[i] = c) - 1

\* s[a:b] of Python for 0 <= a <= b
Slice(s, a, b) ==
    SubSeq(s, a + 1, IF b < Len(s) THEN b ELSE Len(s))

\* hex_color.lstrip('#')
RECURSIVE LStripHash(_)
LStripHash(s) == IF s # <<>> /\ s[1] = "#" THEN LStripHash(Tail(s)) ELSE s

\* int(s, 16) succeeds on a non-empty string of hexadecimal digits
IsHexInt(s) == s # <<>> /\ \A i \in 1..Len(s) : IsHexDigit(s[i])

RECURSIVE HexInt(_)
HexInt(s) ==
    IF s = <<>> THEN 0
    ELSE 16 * HexInt(SubSeq(s, 1, Len(s) - 1)) + HexDigitValue(s[Len(s)])

\* RGBColor(255, 255, 255)
White == <<255, 255, 255>>

\* hex_to_rgb(hex_color): RGBColor(r, g, b), or "ValueError" when one of the
\* three slices is not a hexadecimal number
hex_to_rgb(hex_color) ==
    LET h == LStripHash(hex_color)
        r == Slice(h, 0, 2)
        g == Slice(h, 2, 4)
        b == Slice(h, 4, 6)
    IN  IF IsHexInt(r) /\ IsHexInt(g) /\ IsHexInt(b)
        THEN <<HexInt(r), HexInt(g), HexInt(b)>>
        ELSE "ValueError"

\* SPACE_AFTER_BODY, SPACE_BEFORE_H1, SPACE_AFTER_H1, SPACE_BEFORE_H2,
\* SPACE_AFTER_H2, SPACE_BEFORE_H3, SPACE_AFTER_H3: 0.9, 2.0, 1.5, 1.8, 0.8,
\* 1.2, 0.5 as fractions
SpacingMultipliers ==
    <<[num |-> 9, den |-> 10], [num |-> 2, den |-> 1], [num |-> 15, den |-> 10],
      [num |-> 18, den |-> 10], [num |-> 8, den |-> 10], [num |-> 12, den |-> 10],
      [num |-> 5, den |-> 10]>>

\* int(base * multiplier) for each of the seven multipliers
ScaledSpacings(base) ==
    [i \in 1..Len(SpacingMultipliers) |->
        FTrunc(FMulInt(FLiteral(SpacingMultipliers[i].num, SpacingMultipliers[i].den),
                       base))]

\* the entry of spacing_map for element_type, (before, after) in points
SpacingEntry(base, scaled, element_type) ==
    IF element_type = "body" THEN <<0, scaled[1]>>
    ELSE IF element_type = "h1" THEN <<scaled[2], scaled[3]>>
    ELSE IF element_type = "h2" THEN <<scaled[4], scaled[5]>>
    ELSE IF element_type = "h3" THEN <<scaled[6], scaled[7]>>
    ELSE IF element_type = "list" THEN <<2, 2>>
    ELSE IF element_type = "table" THEN <<12, 12>>
    ELSE <<0, base>>

\* TypographyEngine.calculate_spacing(element_type): (before, after) in points
calculate_spacing(body_size, element_type) ==
    SpacingEntry(body_size, ScaledSpacings(body_size), element_type)

\* TypographyEngine.get_line_spacing(): 1.15, in hundredths
get_line_spacing == 115

\* TypographyEngine.apply_widow_orphan_control(paragraph)
apply_widow_orphan_control(paragraph) ==
    IF Contains(paragraph.style, WordHeading)
    THEN [paragraph EXCEPT !.widow_control = TRUE, !.keep_next = TRUE]
    ELSE [paragraph EXCEPT !.widow_control = TRUE]

(***************************************************************************)
(* QualityValidator                                                        *)
(***************************************************************************)

QualityIssue(category, severity, message, location, auto_fixed) ==
    [category |-> category, severity |-> severity, message |-> message,
     location |-> location, auto_fixed |-> auto_fixed]

\* _check_typography: the issues for paragraphs i.. of ps
RECURSIVE CheckTypographyFrom(_, _)
CheckTypographyFrom(ps, i) ==
    IF i > Len(ps) THEN <<>>
    ELSE LET text == ParaText(ps[i])
         IN  (IF text # <<>> /\ Len(Split(text)) = 1 /\ Len(text) < 5
              THEN <<QualityIssue("typography", "warning", <<"runt line", 0, 0>>,
                                  <<"Paragraph", i>>, FALSE)>>
              ELSE <<>>)
             \o CheckTypographyFrom(ps, i + 1)

check_typography(d) == CheckTypographyFrom(Paragraphs(d), 1)

\* the header-cell part of _check_tables, for cells j.. of the first row
RECURSIVE CheckHeaderFrom(_, _, _)
CheckHeaderFrom(cells, j, i) ==
    IF j > Len(cells) THEN <<>>
    ELSE (IF Strip(CellText(cells[j])) = <<>>
          THEN <<QualityIssue("tables", "warning", <<"empty header cell", j, 0>>,
                              <<"Table", i>>, FALSE)>>
          ELSE <<>>)
         \o CheckHeaderFrom(cells, j + 1, i)

\* _check_tables, for tables i.. of ts
RECURSIVE CheckTablesFrom(_, _)
CheckTablesFrom(ts, i) ==
    IF i > Len(ts) THEN <<>>
    ELSE LET rows == ts[i].rows
             col_counts == {Len(rows[r].cells) : r \in 1..Len(rows)}
         IN  (IF Cardinality(col_counts) > 1
              THEN <<QualityIssue("tables", "critical", <<"inconsistent column count", 0, 0>>,
                                  <<"Table", i>>, FALSE)>>
              ELSE <<>>)
             \o (IF rows # <<>> THEN CheckHeaderFrom(rows[1].cells, 1, i) ELSE <<>>)
             \o CheckTablesFrom(ts, i + 1)

check_tables(d) == CheckTablesFrom(Tables(d), 1)

\* _check_spacing with a count that a paragraph with text does not reset
RECURSIVE CheckSpacingFrom_no_reset(_, _, _)
CheckSpacingFrom_no_reset(ps, i, consecutive_empty) ==
    IF i > Len(ps) THEN <<>>
    ELSE IF Strip(ParaText(ps[i])) = <<>>
         THEN (IF consecutive_empty + 1 > 2
               THEN <<QualityIssue("spacing", "warning", <<"excessive empty paragraphs", 0, 0>>,
                                   <<"Paragraph", i>>, TRUE)>>
               ELSE <<>>)
              \o CheckSpacingFrom_no_reset(ps, i + 1, consecutive_empty + 1)
         ELSE CheckSpacingFrom_no_reset(ps, i + 1, consecutive_empty)

\* _check_spacing, for paragraphs i.. with the running count consecutive_empty
RECURSIVE CheckSpacingFrom(_, _, _)
CheckSpacingFrom(ps, i, consecutive_empty) ==
    IF i > Len(ps) THEN <<>>
    ELSE IF Strip(ParaText(ps[i])) = <<>>
         THEN (IF consecutive_empty + 1 > 2
               THEN <<QualityIssue("spacing", "warning", <<"excessive empty paragraphs", 0, 0>>,
                                   <<"Paragraph", i>>, TRUE)>>
               ELSE <<>>)
              \o CheckSpacingFrom(ps, i + 1, consecutive_empty + 1)
         ELSE CheckSpacingFrom(ps, i + 1, 0)

check_spacing(d) == CheckSpacingFrom(Paragraphs(d), 1, 0)

\* _check_consistency flagging a first heading below level 1 as well
RECURSIVE CheckConsistencyFrom_first_too(_, _, _)
CheckConsistencyFrom_first_too(ps, i, last_heading_level) ==
    IF i > Len(ps) THEN <<>>
    ELSE LET style_name == ps[i].style
             words == Split(style_name)
         IN  IF Contains(style_name, WordHeading) /\ IsInt(words[Len(words)])
             THEN LET level == ParseInt(words[Len(words)])
                  IN  (IF level > last_heading_level + 1
                       THEN <<QualityIssue("structure", "warning",
                                           <<"skipped heading level", last_heading_level, level>>,
                                           <<"Paragraph", i>>, FALSE)>>
                       ELSE <<>>)
                      \o CheckConsistencyFrom_first_too(ps, i + 1, level)
             ELSE CheckConsistencyFrom_first_too(ps, i + 1, last_heading_level)

\* _check_consistency, for paragraphs i.. with the running last_heading_level
RECURSIVE CheckConsistencyFrom(_, _, _)
CheckConsistencyFrom(ps, i, last_heading_level) ==
    IF i > Len(ps) THEN <<>>
    ELSE LET style_name == ps[i].style
             words == Split(style_name)
         IN  IF Contains(style_name, WordHeading) /\ IsInt(words[Len(words)])
             THEN LET level == ParseInt(words[Len(words)])
                  IN  (IF level > last_heading_level + 1 /\ last_heading_level > 0
                       THEN <<QualityIssue("structure", "warning",
                                           <<"skipped heading level", last_heading_level, level>>,
                                           <<"Paragraph", i>>, FALSE)>>
                       ELSE <<>>)
                      \o CheckConsistencyFrom(ps, i + 1, level)
             ELSE CheckConsistencyFrom(ps, i + 1, last_heading_level)

check_consistency(d) == CheckConsistencyFrom(Paragraphs(d), 1, 0)

\* _check_page_layout: the document's one section
check_page_layout(d) ==
    IF d.left_margin < Inches100(50)
    THEN <<QualityIssue("layout", "warning", <<"left margin too narrow", 0, 0>>,
                        <<"Document margins", 0>>, FALSE)>>
    ELSE <<>>

\* the count of the issues of a severity, the auto-fixed ones included
RECURSIVE CountUnfixed_with_fixed(_, _)
CountUnfixed_with_fixed(found, severity) ==
    IF found = <<>> THEN 0
    ELSE (IF found[1].severity = severity THEN 1 ELSE 0)
         + CountUnfixed_with_fixed(Tail(found), severity)

\* sum(1 for i in issues if i.severity == severity and not i.auto_fixed)
RECURSIVE CountUnfixed(_, _)
CountUnfixed(found, severity) ==
    IF found = <<>> THEN 0
    ELSE (IF found[1].severity = severity /\ ~found[1].auto_fixed THEN 1 ELSE 0)
         + CountUnfixed(Tail(found), severity)

\* the level rule with the warning threshold off by one
DetermineLevel_threshold(found) ==
    LET critical_count == CountUnfixed(found, "critical")
        warning_count == CountUnfixed(found, "warning")
    IN  IF critical_count > 0 THEN "FAILED"
        ELSE IF warning_count >= 3 THEN "NEEDS_ATTENTION"
        ELSE IF warning_count > 0 THEN "ACCEPTABLE"
        ELSE "PERFECT"

\* validate_document: the overall quality level of the collected found
DetermineLevel(found) ==
    LET critical_count == CountUnfixed(found, "critical")
        warning_count == CountUnfixed(found, "warning")
    IN  IF critical_count > 0 THEN "FAILED"
        ELSE IF warning_count > 3 THEN "NEEDS_ATTENTION"
        ELSE IF warning_count > 0 THEN "ACCEPTABLE"
        ELSE "PERFECT"

\* validate_document: self.issues after the five checks, from an empty list
CollectIssues(d) ==
    check_typography(d) \o check_tables(d) \o check_spacing(d)
        \o check_consistency(d) \o check_page_layout(d)

\* validate_document returning the level without the issues behind it
validate_document_level_only(self_issues, d) ==
    [level |-> DetermineLevel(CollectIssues(d)), issues |-> <<>>]

\* validate_document adding to the issue list the validator already holds
validate_document_accumulating(self_issues, d) ==
    LET collected == self_issues \o CollectIssues(d)
    IN  [level |-> DetermineLevel(collected), issues |-> collected]

\* validate_document(doc) on a validator whose issue list is self_issues:
\* the returned level and issue list
validate_document(self_issues, d) ==
    LET emptied == <<>>
        collected == emptied \o CollectIssues(d)
    IN  [level |-> DetermineLevel(collected), issues |-> collected]

(***************************************************************************)
(* Calls of validate_document on documents built through the python-docx   *)
(* interface                                                               *)
(***************************************************************************)

\* longest body the validated documents have
MaxBody == 4

\* number of validate_document calls made on one validator
MaxValidateCalls == 2

TextPlain(text) == <<NewRun(text)>>

\* a table whose cells hold one paragraph each; texts[r][c] is a cell's text
TableOfTexts(grid_cols, texts) ==
    NewTable(grid_cols,
        [r \in 1..Len(texts) |->
            NewRow([c \in 1..Len(texts[r]) |->
                NewCell(<<NewParagraph(StyleNormal,
                            IF texts[r][c] = <<>> THEN <<>>
                            ELSE TextPlain(texts[r][c]))>>)])])

\* the blocks the validated documents are made of
ValidatedBlocks ==
    { NewParagraph(StyleNormal, TextPlain(<<"h", "i">>)),
      NewParagraph(StyleNormal, TextPlain(<<"h", "e", "l", "l", "o", " ", "w", "o", "r", "l", "d">>)),
      NewParagraph(StyleNormal, <<>>),
      NewParagraph(StyleNormal, TextPlain(<<" ">>)),
      NewParagraph(StyleHeading1, TextPlain(<<"S", "c", "o", "p", "e">>)),
      NewParagraph(StyleHeading2, TextPlain(<<"G", "o", "a", "l", "s">>)),
      NewParagraph(StyleHeading3, TextPlain(<<"R", "i", "s", "k", "s">>)),
      TableOfTexts(2, <<<<<<"A">>, <<"B">>>>, <<<<"h", "i">>, <<"h", "i">>>>>>),
      TableOfTexts(2, <<<<<<"A">>, <<"B">>>>, <<<<"h", "i">>>>>>),
      TableOfTexts(2, <<<<<<>>, <<" ">>>>, <<<<"h", "i">>, <<"h", "i">>>>>>),
      TableOfTexts(4, <<<<<<>>, <<" ">>, <<>>, <<>>>>>>) }

InitValidate ==
    /\ doc = NewDocument
    /\ issues = <<>>
    /\ quality_level = "none"
    /\ validate_calls = 0
    /\ LoadIdle
    /\ WidthIdle
    /\ ApplyIdle
    /\ BatchIdle

\* doc.add_paragraph(...) / doc.add_table(...) and filling it in
AddBlock ==
    /\ validate_calls = 0
    /\ Len(doc.body) < MaxBody
    /\ \E b \in ValidatedBlocks : doc' = [doc EXCEPT !.body = Append(@, b)]
    /\ UNCHANGED <<issues, quality_level, validate_calls, load_vars, width_vars,
                   apply_vars, batch_vars>>

\* section.left_margin = Inches(0.25)
NarrowMargin ==
    /\ validate_calls = 0
    /\ doc.left_margin = Inches100(125)
    /\ doc' = [doc EXCEPT !.left_margin = Inches100(25)]
    /\ UNCHANGED <<issues, quality_level, validate_calls, load_vars, width_vars,
                   apply_vars, batch_vars>>

\* level, issues = validator.validate_document(doc)
ValidateDocument ==
    /\ validate_calls < MaxValidateCalls
    /\ LET r == validate_document(issues, doc)
       IN  /\ issues' = r.issues
           /\ quality_level' = r.level
    /\ validate_calls' = validate_calls + 1
    /\ UNCHANGED <<doc, load_vars, width_vars, apply_vars, batch_vars>>

NextValidate == AddBlock \/ NarrowMargin \/ ValidateDocument

SpecValidate == InitValidate /\ [][NextValidate]_vars

\* the issues of the given severity that are not marked auto-fixed
Unfixed(severity) ==
    {i \in DOMAIN issues : issues[i].severity = severity /\ issues[i].auto_fixed = FALSE}

\* C1: the level validate_document returns is FAILED if some issue is
\* critical and not auto-fixed; else NEEDS_ATTENTION if more than 3 issues are
\* warnings and not auto-fixed; else ACCEPTABLE if there is such a warning;
\* else PERFECT.
C1_LevelRule ==
    validate_calls > 0
    => quality_level =
           (IF Unfixed("critical") # {} THEN "FAILED"
            ELSE IF Cardinality(Unfixed("warning")) >= 4 THEN "NEEDS_ATTENTION"
            ELSE IF Unfixed("warning") # {} THEN "ACCEPTABLE"
            ELSE "PERFECT")

\* a document with exactly three warnings, other auto-fixed warnings and no
\* critical issue has been validated
C1_Witness ==
    /\ validate_calls > 0
    /\ Cardinality(Unfixed("warning")) = 3
    /\ \E i \in DOMAIN issues : issues[i].auto_fixed
    /\ quality_level = "ACCEPTABLE"

(***************************************************************************)
(* ProfessionalTableFormatter._optimize_column_widths                      *)
(***************************************************************************)

Max(a, b) == IF a > b THEN a ELSE b

RECURSIVE SumInts(_)
SumInts(xs) == IF xs = <<>> THEN 0 ELSE xs[1] + SumInts(Tail(xs))

\* col_max_lengths[i] over rows r..: the longest stripped cell text of column i
RECURSIVE ColMaxLength(_, _, _)
ColMaxLength(rows, r, i) ==
    IF r > Len(rows) THEN 0
    ELSE Max(IF i <= Len(rows[r].cells)
             THEN Len(Strip(CellText(rows[r].cells[i])))
             ELSE 0,
             ColMaxLength(rows, r + 1, i))

\* min_pct = 0.15
min_pct == FLiteral(15, 100)

\* max_pct = 0.60
max_pct == FLiteral(60, 100)

\* the clamped proportion of a column of content length `length`
ClampedProportion(length, total_length) ==
    FMax(min_pct, FMin(max_pct, FDiv(FOfInt(length), FOfInt(total_length))))

\* widths: the clamped proportions of the columns (lines 293-299)
ClampedWidths(col_max_lengths, total_length) ==
    [i \in 1..Len(col_max_lengths) |->
        ClampedProportion(col_max_lengths[i], total_length)]

\* the widths left as they are, without the division
DividedBy_nothing(widths, total_proportion) == widths

\* widths = [w / total_proportion for w in widths] (line 311)
DividedBy(widths, total_proportion) ==
    [i \in 1..Len(widths) |-> FDiv(widths[i], total_proportion)]

\* the normalisation to 100% (lines 309-311)
Normalized(py, widths) == DividedBy(widths, FSum(py, widths))

\* width_pct = int(widths[i] * 5000) for every column (line 315)
InFiftieths(widths) ==
    [i \in 1..Len(widths) |-> FTrunc(FMulInt(widths[i], 5000))]

\* total_length = sum(col_max_lengths) or 1
TotalLength(col_max_lengths) ==
    IF SumInts(col_max_lengths) = 0 THEN 1 ELSE SumInts(col_max_lengths)

\* the column widths with the clamped proportions applied as they are
ColumnWidths_unnormalized(py, col_max_lengths) ==
    InFiftieths(ClampedWidths(col_max_lengths, TotalLength(col_max_lengths)))

\* the widths applied to the columns, in fiftieths of a percent, for the
\* columns' content lengths
ColumnWidths(py, col_max_lengths) ==
    InFiftieths(Normalized(py,
        ClampedWidths(col_max_lengths, TotalLength(col_max_lengths))))

\* _optimize_column_widths(table) on a rectangular table
optimize_column_widths(py, t) ==
    IF t.rows = <<>> THEN t
    ELSE LET num_cols == t.grid_cols
             col_max_lengths == [i \in 1..num_cols |-> ColMaxLength(t.rows, 1, i)]
             width_pct == ColumnWidths(py, col_max_lengths)
         IN  [t EXCEPT !.rows =
                 [r \in 1..Len(t.rows) |->
                     [t.rows[r] EXCEPT !.cells =
                         [j \in 1..Len(t.rows[r].cells) |->
                             IF j <= num_cols
                             THEN [t.rows[r].cells[j] EXCEPT !.width = width_pct[j]]
                             ELSE t.rows[r].cells[j]]]]]

(***************************************************************************)
(* Calls of _optimize_column_widths on tables built through python-docx    *)
(***************************************************************************)

\* most columns of a table
MaxCols == 3

\* longest stripped cell text
MaxTextLen == 2

\* a cell whose text has n characters once stripped
CellOfLength(n) ==
    NewCell(<<NewParagraph(StyleNormal,
                 IF n = 0 THEN <<>>
                 ELSE <<NewRun(<<" ">> \o [i \in 1..n |-> "x"])>>)>>)

InitWidths ==
    /\ py_sum \in {"naive", "neumaier"}
    /\ \E cols \in 1..MaxCols : table = NewTable(cols, <<>>)
    /\ optimized = FALSE
    /\ LoadIdle
    /\ ValidateIdle
    /\ ApplyIdle
    /\ BatchIdle

\* the first row, table.add_row(), with any texts
AddHeaderRow ==
    /\ ~optimized
    /\ table.rows = <<>>
    /\ \E lens \in [1..table.grid_cols -> 0..MaxTextLen] :
           table' = [table EXCEPT !.rows =
                        <<NewRow([j \in 1..table.grid_cols |-> CellOfLength(lens[j])])>>]
    /\ UNCHANGED <<py_sum, optimized, load_vars, validate_vars, apply_vars, batch_vars>>

\* a second row with text in at most one of its cells
AddBodyRow ==
    /\ ~optimized
    /\ Len(table.rows) = 1
    /\ \E col \in 1..table.grid_cols, n \in 0..MaxTextLen :
           table' = [table EXCEPT !.rows =
                        Append(@, NewRow([j \in 1..table.grid_cols |->
                                     CellOfLength(IF j = col THEN n ELSE 0)]))]
    /\ UNCHANGED <<py_sum, optimized, load_vars, validate_vars, apply_vars, batch_vars>>

\* formatter._optimize_column_widths(table)
OptimizeColumnWidths ==
    /\ ~optimized
    /\ table' = optimize_column_widths(py_sum, table)
    /\ optimized' = TRUE
    /\ UNCHANGED <<py_sum, load_vars, validate_vars, apply_vars, batch_vars>>

NextWidths == AddHeaderRow \/ AddBodyRow \/ OptimizeColumnWidths

SpecWidths == InitWidths /\ [][NextWidths]_vars

\* the widths applied to the cells of the first row, summed
FirstRowWidthSum ==
    SumInts([j \in 1..Len(table.rows[1].cells) |-> table.rows[1].cells[j].width])

\* C2: after _optimize_column_widths on a table with a row, the width applied
\* to every cell is between 15% (750) and 60% (3000) of the table width.
C2_EachWidthWithin15And60 ==
    (optimized /\ table.rows # <<>>)
    => \A r \in 1..Len(table.rows) : \A j \in 1..Len(table.rows[r].cells) :
           /\ table.rows[r].cells[j].width >= 750
           /\ table.rows[r].cells[j].width <= 3000

\* C3 as claimed: the applied widths of a row sum to at most 5000 and fall
\* short of 5000 by less than the number of columns.
C3_SumShortByLessThanColumns ==
    (optimized /\ table.rows # <<>>)
    => /\ FirstRowWidthSum <= 5000
       /\ 5000 - FirstRowWidthSum < table.grid_cols

\* C3 as amended: the applied widths of a row sum to at most 5000 and fall
\* short of 5000 by at most the number of columns.
C3_SumShortByAtMostColumns ==
    (optimized /\ table.rows # <<>>)
    => /\ FirstRowWidthSum <= 5000
       /\ 5000 - FirstRowWidthSum <= table.grid_cols

\* a two-column table whose widths, each truncated from just below a whole
\* number, sum to 4998
C3_Witness ==
    /\ optimized
    /\ table.grid_cols = 2
    /\ Len(table.rows) = 2
    /\ FirstRowWidthSum = 4998

(***************************************************************************)
(* Calls of load_brand_config on its own                                   *)
(***************************************************************************)

UpperChar(c) ==
    IF \E i \in 1..Len(LowerChars) : LowerChars[i] = c
    THEN UpperChars[CHOOSE i \in 1..Len(LowerChars) : LowerChars[i] = c]
    ELSE c

\* every way of writing s in upper and lower case
RECURSIVE CaseVariants(_)
CaseVariants(s) ==
    IF s = <<>> THEN {<<>>}
    ELSE {<<c>> \o rest : c \in {s[1], UpperChar(s[1])},
                          rest \in CaseVariants(Tail(s))}

\* ids that no registry key matches, whatever the case
UnknownNames ==
    {<<>>, <<"x">>, <<"a", "c", "m">>, <<"A", "C", "M", "E", "E">>,
     <<"g", "l", "o", "b", "e">>, <<"a", "c", "m", "e", " ">>,
     <<"a", "c", "m", "e", "_", "g", "l", "o", "b", "e", "x">>}

LoadNames == UNION {CaseVariants(id) : id \in BrandIds} \cup UnknownNames

InitLoad ==
    /\ config_file \in {"present", "missing"}
    /\ load_name \in LoadNames
    /\ load_result = NoResult
    /\ ValidateIdle
    /\ WidthIdle
    /\ ApplyIdle
    /\ BatchIdle

\* one call load_brand_config(load_name)
LoadBrandConfig ==
    /\ load_result = NoResult
    /\ load_result' = load_brand_config(config_file, load_name)
    /\ UNCHANGED <<config_file, load_name, validate_vars, width_vars,
                   apply_vars, batch_vars>>

NextLoad == LoadBrandConfig

SpecLoad == InitLoad /\ [][NextLoad]_vars

\* a and b are the same letter, in the same or in different case
SameLetter(a, b) ==
    \/ a = b
    \/ \E i \in 1..Len(UpperChars) : {a, b} = {UpperChars[i], LowerChars[i]}

DiffersOnlyInCase(s, t) ==
    /\ Len(s) = Len(t)
    /\ \A i \in 1..Len(s) : SameLetter(s[i], t[i])

\* C8: with the registry present, load_brand_config on an id that matches no
\* registered key fails with an error, never returns a profile, and the
\* error message contains every registered brand id.
C8_UnknownBrandFailsListingIds ==
    (/\ load_result # NoResult
     /\ config_file = "present"
     /\ \A id \in BrandIds : ~DiffersOnlyInCase(load_name, id))
    => /\ load_result.kind = "raise"
       /\ load_result.exc = "ValueError"
       /\ \A id \in BrandIds : Contains(load_result.msg, id)

C8_Witness ==
    /\ load_name = <<"a", "c", "m">>
    /\ config_file = "present"
    /\ load_result.kind = "raise"

\* C9: with the registry present, every string that differs from a
\* registered id only in letter case loads that id's profile.
C9_LookupIsCaseInsensitive ==
    (load_result # NoResult /\ config_file = "present")
    => \A id \in BrandIds :
           DiffersOnlyInCase(load_name, id)
           => /\ load_result.kind = "return"
              /\ load_result.value = BrandRegistry[id]

C9_Witness ==
    /\ load_name = <<"A", "c", "M", "e">>
    /\ load_result.kind = "return"
    /\ load_result.value.name = "Acme"

(***************************************************************************)
(* apply_brand_to_docx: styles and margins of the new document             *)
(***************************************************************************)

\* whether every colour the call converts with hex_to_rgb converts
BrandColoursConvert(b) ==
    \A c \in {b.colors.primary, b.colors.textPrimary, b.colors.textSecondary,
              b.colors.accent, b.styles.h1.color, b.styles.h2.color,
              b.styles.h3.color} : hex_to_rgb(c) # "ValueError"

\* a heading style of the new document, from its spec in the brand profile
\* and its (before, after) spacing
HeadingStyleSpaced(b, spec, spacing) ==
    [TemplateStyle EXCEPT !.font = b.typography.headingFont,
                          !.size = spec.size,
                          !.bold = IF spec.bold THEN "True" ELSE "False",
                          !.color = hex_to_rgb(spec.color),
                          !.space_before = spacing[1],
                          !.space_after = spacing[2],
                          !.line_spacing = 100,
                          !.keep_with_next = TRUE]

\* a heading style with the spacing of an 11 point body whatever the brand
HeadingStyle_fixed(b, spec, element_type) ==
    HeadingStyleSpaced(b, spec, calculate_spacing(11, element_type))

HeadingStyle(b, spec, element_type) ==
    HeadingStyleSpaced(b, spec, calculate_spacing(b.styles.body.size, element_type))

\* a list style of the new document
ListStyle(b) ==
    [TemplateStyle EXCEPT !.font = b.typography.bodyFont,
                          !.size = b.styles.body.size,
                          !.color = hex_to_rgb(b.colors.textPrimary),
                          !.space_before = 2,
                          !.space_after = 2]

\* doc = Document() with a left margin of a quarter of an inch
StyledDocument_narrow(b) ==
    [NewDocument EXCEPT !.left_margin = Inches100(25)]

\* doc = Document() with the brand's styles and the page margins set
StyledDocument(b) ==
    [NewDocument EXCEPT
        !.styles = [@ EXCEPT
            ![StyleNormal] = [@ EXCEPT !.font = b.typography.bodyFont,
                                       !.size = b.styles.body.size,
                                       !.color = hex_to_rgb(b.colors.textPrimary),
                                       !.space_before = 0,
                                       !.space_after = 10,
                                       !.line_spacing = get_line_spacing,
                                       !.widow_control = TRUE],
            ![StyleTitle] = [@ EXCEPT !.font = b.typography.headingFont,
                                      !.size = b.styles.h1.size + 8,
                                      !.bold = IF b.styles.h1.bold THEN "True" ELSE "False",
                                      !.color = hex_to_rgb(b.colors.primary),
                                      !.alignment = "CENTER",
                                      !.space_before = 0,
                                      !.space_after = 24],
            ![StyleHeading1] = HeadingStyle(b, b.styles.h1, "h1"),
            ![StyleHeading2] = HeadingStyle(b, b.styles.h2, "h2"),
            ![StyleHeading3] = HeadingStyle(b, b.styles.h3, "h3"),
            ![StyleListBullet] = ListStyle(b),
            ![StyleListNumber] = ListStyle(b)],
        !.top_margin = Inches100(100),
        !.bottom_margin = Inches100(100),
        !.left_margin = Inches100(125),
        !.right_margin = Inches100(125)]

(***************************************************************************)
(* apply_brand_to_docx: the forward pass over the source body              *)
(***************************************************************************)

\* new_run = dest.add_run(run.text) with font, size and colour set
BrandedRun(run, font_name, font_size, color) ==
    [NewRun(RunText(run)) EXCEPT !.font = font_name, !.size = font_size,
                                 !.color = color]

\* one run of _copy_runs, with the source run's formatting carried over too
CopiedRun_source_font(run, font_name, font_size, color) ==
    LET new_run == BrandedRun(run,
                       IF run.font # "" THEN run.font ELSE font_name,
                       IF run.size # 0 THEN run.size ELSE font_size,
                       IF run.color # <<>> THEN run.color ELSE color)
    IN  [new_run EXCEPT
            !.bold = IF run.bold = "True" THEN "True" ELSE @,
            !.italic = IF run.italic = "True" THEN "True" ELSE @,
            !.underline = IF run.underline = "True" THEN "True" ELSE @]

\* one run of _copy_runs: the brand's font, size and colour, and bold,
\* italic and underline where the source run has them on
CopiedRun(run, font_name, font_size, color) ==
    LET new_run == BrandedRun(run, font_name, font_size, color)
    IN  [new_run EXCEPT
            !.bold = IF run.bold = "True" THEN "True" ELSE @,
            !.italic = IF run.italic = "True" THEN "True" ELSE @,
            !.underline = IF run.underline = "True" THEN "True" ELSE @]

\* _copy_runs(source_para, dest_para, font_name, font_size, color)
copy_runs(source_para, dest_para, font_name, font_size, color) ==
    [dest_para EXCEPT !.runs = @ \o
        [k \in 1..Len(source_para.runs) |->
            CopiedRun(source_para.runs[k], font_name, font_size, color)]]

\* doc.add_heading(text, level): a paragraph of style 'Heading <level>' with
\* one run holding the text, none if the text is empty
add_heading(text, level) ==
    NewParagraph(IF level = 1 THEN StyleHeading1
                 ELSE IF level = 2 THEN StyleHeading2 ELSE StyleHeading3,
                 IF text = <<>> THEN <<>> ELSE <<NewRun(text)>>)

\* the paragraph doc.add_page_break() appends
PageBreak ==
    NewParagraph(StyleNormal, <<[NewRun(<<>>) EXCEPT !.brk = "page"]>>)

\* the page break put before every Heading 1, the first one included
BreaksBefore_every_h1(style_name, seen) ==
    IF StartsWith(style_name, StyleHeading1) THEN <<PageBreak>> ELSE <<>>

\* what the forward pass puts before the paragraph (834-837): a page break
\* before a Heading 1 once first_h1_seen is set
BreaksBefore(style_name, seen) ==
    IF (StartsWith(style_name, StyleHeading1) \/ style_name = StyleHeading1) /\ seen
    THEN <<PageBreak>> ELSE <<>>

\* the skip kept to the paragraphs of the body style
Skipped_generic_only(para) ==
    Strip(ParaText(para)) = <<>> /\ para.runs = <<>> /\ para.style = StyleNormal

\* whether the forward pass skips the paragraph (line 830)
Skipped(para) == Strip(ParaText(para)) = <<>> /\ para.runs = <<>>

\* the branch of the forward pass a style name selects, in the order tested
StyleRole(style_name) ==
    IF StartsWith(style_name, StyleHeading1) \/ style_name = StyleHeading1 THEN "h1"
    ELSE IF StartsWith(style_name, StyleHeading2) \/ style_name = StyleHeading2 THEN "h2"
    ELSE IF StartsWith(style_name, StyleHeading3) \/ style_name = StyleHeading3 THEN "h3"
    ELSE IF style_name = StyleTitle THEN "title"
    ELSE IF style_name = StyleSubtitle THEN "subtitle"
    ELSE IF Contains(style_name, StyleListBullet) THEN "bullet"
    ELSE IF Contains(style_name, StyleListNumber) THEN "number"
    ELSE IF Contains(style_name, WordQuote) THEN "quote"
    ELSE "body"

\* new_para for a source paragraph that is not skipped (lines 834-905)
NewPara(para, b) ==
    LET role == StyleRole(para.style)
        para_text == Strip(ParaText(para))
        heading_font == b.typography.headingFont
        body_font == b.typography.bodyFont
        body_size == b.styles.body.size
        primary_color == hex_to_rgb(b.colors.primary)
        text_color == hex_to_rgb(b.colors.textPrimary)
        secondary_color == hex_to_rgb(b.colors.textSecondary)
    IN  IF role = "h1" THEN apply_widow_orphan_control(add_heading(para_text, 1))
        ELSE IF role = "h2" THEN apply_widow_orphan_control(add_heading(para_text, 2))
        ELSE IF role = "h3" THEN apply_widow_orphan_control(add_heading(para_text, 3))
        ELSE IF role = "title"
        THEN [NewParagraph(StyleNormal,
                  [k \in 1..Len(para.runs) |->
                      [BrandedRun(para.runs[k], heading_font, b.styles.h1.size + 14,
                                  primary_color)
                       EXCEPT !.bold = "True"]])
              EXCEPT !.alignment = "CENTER", !.space_before = 100, !.space_after = 24]
        ELSE IF role = "subtitle"
        THEN [NewParagraph(StyleNormal,
                  [k \in 1..Len(para.runs) |->
                      BrandedRun(para.runs[k], body_font, body_size + 2, secondary_color)])
              EXCEPT !.alignment = "CENTER", !.space_before = 0, !.space_after = 36]
        ELSE IF role = "bullet"
        THEN copy_runs(para,
                 [NewParagraph(StyleListBullet, <<>>)
                  EXCEPT !.space_before = 2, !.space_after = 2],
                 body_font, body_size, text_color)
        ELSE IF role = "number"
        THEN copy_runs(para,
                 [NewParagraph(StyleListNumber, <<>>)
                  EXCEPT !.space_before = 2, !.space_after = 2],
                 body_font, body_size, text_color)
        ELSE IF role = "quote"
        THEN [NewParagraph(StyleNormal,
                  [k \in 1..Len(para.runs) |->
                      [BrandedRun(para.runs[k], body_font, body_size, secondary_color)
                       EXCEPT !.italic = "True"]])
              EXCEPT !.indent = Inches100(50), !.space_before = 12, !.space_after = 12]
        ELSE apply_widow_orphan_control(
                 copy_runs(para,
                     [NewParagraph(StyleNormal, <<>>)
                      EXCEPT !.alignment = IF para.alignment \notin {"None", "LEFT"}
                                           THEN para.alignment ELSE @,
                             !.space_before = 0, !.space_after = 10],
                     body_font, body_size, text_color))

\* one run of a table cell in _copy_table; i is the row's index from 0
CopiedCellRun(run, i, body_font, body_size, text_color) ==
    LET new_run == BrandedRun(run, body_font, body_size,
                              IF i = 0 THEN White ELSE text_color)
    IN  [new_run EXCEPT
            !.bold = IF i = 0 \/ run.bold = "True" THEN "True" ELSE @,
            !.italic = IF run.italic = "True" THEN "True" ELSE @]

\* the paragraphs of new_cell once the source cell's are copied into it
CopiedCellParas(cell, i, body_font, body_size, text_color) ==
    IF cell.paras = <<>> THEN <<NewParagraph(StyleNormal, <<>>)>>
    ELSE [k \in 1..Len(cell.paras) |->
             NewParagraph(StyleNormal,
                 [r \in 1..Len(cell.paras[k].runs) |->
                     CopiedCellRun(cell.paras[k].runs[r], i, body_font, body_size,
                                   text_color)])]

\* _copy_table giving each new row as many cells as the source row has
copy_table_ragged(source_table, body_font, body_size, text_color) ==
    [NewTable(source_table.grid_cols,
         [i \in 1..Len(source_table.rows) |->
             NewRow([j \in 1..Len(source_table.rows[i].cells) |->
                 NewCell(CopiedCellParas(source_table.rows[i].cells[j], i - 1,
                                         body_font, body_size, text_color))])])
     EXCEPT !.table_style = "Table Grid", !.alignment = "CENTER"]

\* _copy_table: doc.add_table(rows, cols) makes rows x cols cells of one
\* empty paragraph each; the source cells with j < cols are copied into it
copy_table(source_table, body_font, body_size, text_color) ==
    LET rows == Len(source_table.rows)
        cols == source_table.grid_cols
    IN  [NewTable(cols,
             [i \in 1..rows |->
                 NewRow([j \in 1..cols |->
                     IF j <= Len(source_table.rows[i].cells)
                     THEN NewCell(CopiedCellParas(source_table.rows[i].cells[j], i - 1,
                                                  body_font, body_size, text_color))
                     ELSE NewCell(<<NewParagraph(StyleNormal, <<>>)>>)])])
         EXCEPT !.table_style = "Table Grid", !.alignment = "CENTER"]

\* the empty paragraph with its space before only
Spacer_before_only(before, after) ==
    [NewParagraph(StyleNormal, <<>>) EXCEPT !.space_before = before]

\* the empty paragraph put before (after) a table
Spacer(before, after) ==
    [NewParagraph(StyleNormal, <<>>) EXCEPT !.space_before = before,
                                           !.space_after = after]

(***************************************************************************)
(* ProfessionalTableFormatter.format_table                                 *)
(***************************************************************************)

\* alt_color = "F8F9FA"
alt_color == <<"F", "8", "F", "9", "F", "A">>

\* _set_table_width(table)
set_table_width(t) ==
    [t EXCEPT !.alignment = "CENTER", !.autofit = FALSE, !.tblW = 5000]

\* _apply_professional_borders(table): accent top and bottom, light inside
\* horizontal lines in the secondary text colour, no vertical lines
apply_professional_borders(t, b) ==
    [t EXCEPT !.borders = [top |-> LStripHash(b.colors.accent),
                           bottom |-> LStripHash(b.colors.accent),
                           insideH |-> LStripHash(b.colors.textSecondary)]]

\* the runs of the cell's paragraphs restyled by Restyle
RestyledCell(cell, Restyle(_)) ==
    [cell EXCEPT !.paras =
        [k \in 1..Len(cell.paras) |->
            [cell.paras[k] EXCEPT !.runs =
                [r \in 1..Len(cell.paras[k].runs) |-> Restyle(cell.paras[k].runs[r])]]]]

\* _format_header_row without the background fill
format_header_row_unshaded(t, b) ==
    IF t.rows = <<>> THEN t
    ELSE LET HeaderRun(run) == [run EXCEPT !.bold = "True", !.color = White,
                                           !.size = b.styles.body.size,
                                           !.font = b.typography.bodyFont]
         IN  [t EXCEPT !.rows[1].cells =
                 [j \in 1..Len(t.rows[1].cells) |->
                     [RestyledCell(t.rows[1].cells[j], HeaderRun)
                      EXCEPT !.bottom_border = LStripHash(b.colors.accent)]]]

\* _format_header_row(table)
format_header_row(t, b) ==
    IF t.rows = <<>> THEN t
    ELSE LET header_bg_color == LStripHash(b.colors.primary)
             HeaderRun(run) == [run EXCEPT !.bold = "True", !.color = White,
                                           !.size = b.styles.body.size,
                                           !.font = b.typography.bodyFont]
         IN  [t EXCEPT !.rows[1].cells =
                 [j \in 1..Len(t.rows[1].cells) |->
                     [RestyledCell(t.rows[1].cells[j], HeaderRun)
                      EXCEPT !.shading = header_bg_color,
                             !.bottom_border = LStripHash(b.colors.accent)]]]

\* _format_body_rows with the fill on the odd-numbered body rows instead
format_body_rows_odd(t, b) ==
    IF Len(t.rows) < 2 THEN t
    ELSE LET BodyRun(run) == [run EXCEPT !.color = hex_to_rgb(b.colors.textPrimary),
                                         !.size = b.styles.body.size,
                                         !.font = b.typography.bodyFont]
         IN  [t EXCEPT !.rows =
                 [n \in 1..Len(t.rows) |->
                     IF n = 1 THEN t.rows[1]
                     ELSE [t.rows[n] EXCEPT !.cells =
                              [j \in 1..Len(t.rows[n].cells) |->
                                  LET cell == RestyledCell(t.rows[n].cells[j], BodyRun)
                                  IN  IF (n - 1) % 2 = 1
                                      THEN [cell EXCEPT !.shading = alt_color]
                                      ELSE cell]]]]

\* _format_body_rows(table): row n of the model is row i = n - 1 of the code
format_body_rows(t, b) ==
    IF Len(t.rows) < 2 THEN t
    ELSE LET BodyRun(run) == [run EXCEPT !.color = hex_to_rgb(b.colors.textPrimary),
                                         !.size = b.styles.body.size,
                                         !.font = b.typography.bodyFont]
         IN  [t EXCEPT !.rows =
                 [n \in 1..Len(t.rows) |->
                     IF n = 1 THEN t.rows[1]
                     ELSE [t.rows[n] EXCEPT !.cells =
                              [j \in 1..Len(t.rows[n].cells) |->
                                  LET cell == RestyledCell(t.rows[n].cells[j], BodyRun)
                                  IN  IF (n - 1) % 2 = 0
                                      THEN [cell EXCEPT !.shading = alt_color]
                                      ELSE cell]]]]

\* _apply_cell_padding(table): 80 top and bottom, 120 left and right (dxa)
apply_cell_padding(t) ==
    [t EXCEPT !.cell_margins = [top |-> 80, bottom |-> 80, left |-> 120, right |-> 120]]

\* _set_row_heights(table): 28pt for the first row, 24pt for the others
set_row_heights(t) ==
    [t EXCEPT !.rows =
        [n \in 1..Len(t.rows) |->
            [t.rows[n] EXCEPT !.height = IF n = 1 THEN 28 ELSE 24,
                              !.height_rule = "AT_LEAST"]]]

\* format_table(table): the seven steps in order
format_table(py, t, b) ==
    set_row_heights(
        apply_cell_padding(
            format_body_rows(
                format_header_row(
                    apply_professional_borders(
                        optimize_column_widths(py, set_table_width(t)), b), b), b)))

\* format_table on a second copy of each table, put at the end of the body
RECURSIVE FormatTablesAt_appended(_, _, _, _)
FormatTablesAt_appended(py, body, todo, b) ==
    IF todo = <<>> THEN body
    ELSE FormatTablesAt_appended(py,
             Append(body, format_table(py, body[todo[1]], b)), Tail(todo), b)

\* format_table on the first of the tables at positions todo only
FormatTablesAt_first_only(py, body, todo, b) ==
    IF todo = <<>> THEN body
    ELSE [body EXCEPT ![todo[1]] = format_table(py, body[todo[1]], b)]

\* format_table on each of the tables at positions todo of the body
RECURSIVE FormatTablesAt(_, _, _, _)
FormatTablesAt(py, body, todo, b) ==
    IF todo = <<>> THEN body
    ELSE FormatTablesAt(py,
             [body EXCEPT ![todo[1]] = format_table(py, body[todo[1]], b)],
             Tail(todo), b)

(***************************************************************************)
(* apply_brand_to_docx(input_path, brand_name, output_path), step by step  *)
(***************************************************************************)

\* the variables of the call that the steps after the first leave alone
call_args == <<brand_name, output_path>>

\* what the call does not touch
apply_frame == <<config_file, input_file, py_sum, load_name, load_result, table,
                 optimized, batch_vars>>

\* a call that takes the profile loaded by the call before it, if any
EnterCall_cached_brand(name, path) ==
    /\ pc' = IF brand = NoResult THEN "load" ELSE "open"
    /\ brand_name' = name
    /\ output_path' = path
    /\ brand' = brand
    /\ source_doc' = NoResult
    /\ elem' = 0
    /\ first_h1_seen' = FALSE
    /\ tables_to_process' = <<>>
    /\ new_blocks' = <<>>
    /\ outcome' = NoResult
    /\ doc' = NewDocument
    /\ issues' = <<>>
    /\ quality_level' = "none"
    /\ validate_calls' = 0

\* the locals of a call that has just been entered
EnterCall(name, path) ==
    /\ pc' = "load"
    /\ brand_name' = name
    /\ output_path' = path
    /\ brand' = NoResult
    /\ source_doc' = NoResult
    /\ elem' = 0
    /\ first_h1_seen' = FALSE
    /\ tables_to_process' = <<>>
    /\ new_blocks' = <<>>
    /\ outcome' = NoResult
    /\ doc' = NewDocument
    /\ issues' = <<>>
    /\ quality_level' = "none"
    /\ validate_calls' = 0

\* brand = load_brand_config(brand_name), and the three engines (695-700)
LoadBrand ==
    /\ pc = "load"
    /\ LET r == load_brand_config(config_file, brand_name)
       IN  IF r.kind = "raise"
           THEN /\ pc' = "raised"
                /\ outcome' = r
                /\ brand' = brand
           ELSE /\ pc' = "open"
                /\ outcome' = outcome
                /\ brand' = r.value
    /\ UNCHANGED <<call_args, source_doc, elem, first_h1_seen, tables_to_process,
                   new_blocks, files, validate_vars, apply_frame>>

\* source_doc = Document(input_path) (703)
OpenSource ==
    /\ pc = "open"
    /\ IF input_file.kind = "docx"
       THEN /\ source_doc' = [body |-> input_file.body]
            /\ pc' = "styles"
            /\ outcome' = outcome
       ELSE /\ source_doc' = source_doc
            /\ pc' = "raised"
            /\ outcome' = [kind |-> "raise", exc |-> "PackageNotFoundError", msg |-> <<>>]
    /\ UNCHANGED <<call_args, brand, elem, first_h1_seen, tables_to_process,
                   new_blocks, files, validate_vars, apply_frame>>

\* doc = Document(), the brand's colours, the styles and the margins (706-812)
ApplyStyles ==
    /\ pc = "styles"
    /\ IF BrandColoursConvert(brand)
       THEN /\ doc' = StyledDocument(brand)
            /\ pc' = "copy"
            /\ elem' = 1
            /\ outcome' = outcome
       ELSE /\ doc' = doc
            /\ pc' = "raised"
            /\ elem' = elem
            /\ outcome' = [kind |-> "raise", exc |-> "ValueError", msg |-> <<>>]
    /\ first_h1_seen' = FALSE
    /\ tables_to_process' = <<>>
    /\ UNCHANGED <<call_args, brand, source_doc, new_blocks, files, issues,
                   quality_level, validate_calls, apply_frame>>

\* one iteration of `for element in source_doc.element.body` (814-924)
CopyElement ==
    /\ pc = "copy"
    /\ elem <= Len(source_doc.body)
    /\ LET element == source_doc.body[elem]
           body_font == brand.typography.bodyFont
           body_size == brand.styles.body.size
           text_color == hex_to_rgb(brand.colors.textPrimary)
       IN  IF element.type = "p"
           THEN IF Skipped(element)
                THEN /\ doc' = doc
                     /\ first_h1_seen' = first_h1_seen
                     /\ new_blocks' = Append(new_blocks, 0)
                     /\ tables_to_process' = tables_to_process
                ELSE LET breaks == BreaksBefore(element.style, first_h1_seen)
                     IN  /\ doc' = [doc EXCEPT !.body = @ \o breaks
                                                 \o <<NewPara(element, brand)>>]
                         /\ first_h1_seen' = (first_h1_seen
                                              \/ StyleRole(element.style) = "h1")
                         /\ new_blocks' = Append(new_blocks,
                                                 Len(doc.body) + Len(breaks) + 1)
                         /\ tables_to_process' = tables_to_process
           ELSE /\ doc' = [doc EXCEPT !.body = @ \o
                              <<Spacer(18, 6),
                                copy_table(element, body_font, body_size, text_color),
                                Spacer(6, 24)>>]
                /\ first_h1_seen' = first_h1_seen
                /\ new_blocks' = Append(new_blocks, Len(doc.body) + 2)
                /\ tables_to_process' = Append(tables_to_process, Len(doc.body) + 2)
    /\ elem' = elem + 1
    /\ UNCHANGED <<pc, call_args, brand, source_doc, outcome, files, issues,
                   quality_level, validate_calls, apply_frame>>

\* table_formatter.format_table(table, i) for each new table (930-931)
FormatTables ==
    /\ pc = "copy"
    /\ elem > Len(source_doc.body)
    /\ doc' = [doc EXCEPT !.body = FormatTablesAt(py_sum, @, tables_to_process, brand)]
    /\ pc' = "validate"
    /\ UNCHANGED <<call_args, brand, source_doc, elem, first_h1_seen,
                   tables_to_process, new_blocks, outcome, files, issues,
                   quality_level, validate_calls, apply_frame>>

\* quality_level, issues = quality_validator.validate_document(doc) (937)
Validate ==
    /\ pc = "validate"
    /\ LET r == validate_document(issues, doc)
       IN  /\ issues' = r.issues
           /\ quality_level' = r.level
    /\ validate_calls' = validate_calls + 1
    /\ pc' = "save"
    /\ UNCHANGED <<call_args, brand, source_doc, elem, first_h1_seen,
                   tables_to_process, new_blocks, outcome, files, doc, apply_frame>>

\* doc.save(output_path) and the return (943-945)
Save ==
    /\ pc = "save"
    /\ files' = {f \in files : f.path # output_path}
                    \cup {[path |-> output_path, doc |-> doc]}
    /\ outcome' = [kind |-> "return",
                   value |-> <<output_path, quality_level, issues>>]
    /\ pc' = "returned"
    /\ UNCHANGED <<call_args, brand, source_doc, elem, first_h1_seen,
                   tables_to_process, new_blocks, validate_vars, apply_frame>>

NextApply ==
    \/ LoadBrand
    \/ OpenSource
    \/ ApplyStyles
    \/ CopyElement
    \/ FormatTables
    \/ Validate
    \/ Save

(***************************************************************************)
(* One call apply_brand_to_docx(input_path, brand_name, "out.docx")        *)
(***************************************************************************)

\* longest body of a source document
MaxBlocks == 3

\* a run of the source with character formatting of its own
SourceRun(text, bold) ==
    [NewRun(text) EXCEPT !.bold = bold, !.font = "Courier", !.size = 9,
                         !.color = <<200, 0, 0>>]

\* a source table; runs[r][c] holds the runs of the one paragraph of a cell
SourceTable(grid_cols, runs) ==
    NewTable(grid_cols,
        [r \in 1..Len(runs) |->
            NewRow([c \in 1..Len(runs[r]) |->
                NewCell(<<NewParagraph(StyleNormal, runs[r][c])>>)])])

StyleIntenseQuote == <<"I", "n", "t", "e", "n", "s", "e", " ">> \o WordQuote

\* the blocks the source documents are made of: every paragraph role, with
\* bold and plain runs, paragraphs without runs, a rectangular table and a
\* table whose last row is one cell short
SourceBlocks ==
    { NewParagraph(StyleTitle, <<SourceRun(<<"D", "o", "c">>, "True")>>),
      NewParagraph(StyleSubtitle, <<SourceRun(<<"S", "u", "b">>, "True")>>),
      NewParagraph(StyleHeading1, <<SourceRun(<<"I", "n", "t", "r", "o">>, "True")>>),
      NewParagraph(StyleHeading1, <<>>),
      NewParagraph(StyleHeading2, <<NewRun(<<"G", "o", "a", "l", "s">>)>>),
      NewParagraph(StyleHeading3, <<SourceRun(<<"P", "a", "r", "t">>, "True")>>),
      NewParagraph(StyleListBullet, <<SourceRun(<<"a">>, "True"), NewRun(<<" ", "b">>)>>),
      NewParagraph(StyleListNumber, <<NewRun(<<"o", "n", "e">>)>>),
      NewParagraph(StyleIntenseQuote, <<SourceRun(<<"q">>, "True")>>),
      NewParagraph(StyleNormal, <<SourceRun(<<"h", "i">>, "True"), SourceRun(<<" ", "t", "h", "e", "r", "e">>, "False")>>),
      NewParagraph(StyleNormal, <<>>),
      SourceTable(2, << << <<NewRun(<<"A">>)>>, <<SourceRun(<<"B">>, "False")>> >>,
                        << <<SourceRun(<<"x">>, "True")>>, <<NewRun(<<"y">>)>> >>,
                        << <<NewRun(<<"z">>)>>, <<NewRun(<<"w">>)>> >> >>),
      SourceTable(2, << << <<NewRun(<<"A">>)>>, <<NewRun(<<"B">>)>> >>,
                        << <<SourceRun(<<"x">>, "True")>> >> >>) }

OutPath == <<"o", "u", "t", ".", "d", "o", "c", "x">>

GlobexUpper == <<"G", "L", "O", "B", "E", "X">>

\* the brand ids the call is made with: two registered, one of them in upper
\* case, and one unknown
CalledNames == {Acme, GlobexUpper, <<"x">>}

\* the blocks a source is made of: all of them, or, where the summation is
\* the compensated one, the tables, which alone reach sum()
BlocksFor(py) ==
    IF py = "naive" THEN SourceBlocks
    ELSE {blk \in SourceBlocks : blk.type = "tbl"}

\* before the call: the registry file is there or not, the input file is
\* missing, a file that is no document package, or a .docx with an empty body
InitApply ==
    /\ config_file \in {"present", "missing"}
    /\ py_sum \in {"naive", "neumaier"}
    /\ input_file \in {[kind |-> "missing"], [kind |-> "malformed"],
                       [kind |-> "docx", body |-> <<>>]}
    /\ pc = "setup"
    /\ brand_name = <<>>
    /\ output_path = <<>>
    /\ brand = NoResult
    /\ source_doc = NoResult
    /\ elem = 0
    /\ first_h1_seen = FALSE
    /\ tables_to_process = <<>>
    /\ new_blocks = <<>>
    /\ outcome = NoResult
    /\ files = {}
    /\ ValidateIdle
    /\ load_name = <<>>
    /\ load_result = NoResult
    /\ table = NewTable(0, <<>>)
    /\ optimized = FALSE
    /\ BatchIdle

\* the source document gets one more block, while the registry is there
WriteSourceBlock ==
    /\ pc = "setup"
    /\ config_file = "present"
    /\ input_file.kind = "docx"
    /\ Len(input_file.body) < MaxBlocks
    /\ \E blk \in BlocksFor(py_sum) :
           input_file' = [input_file EXCEPT !.body = Append(@, blk)]
    /\ UNCHANGED <<config_file, py_sum, load_name, load_result, table, optimized,
                   batch_vars, pc, brand_name, output_path, brand, source_doc, elem,
                   first_h1_seen, tables_to_process, new_blocks, outcome, files,
                   validate_vars>>

\* apply_brand_to_docx(input_path, name, "out.docx") is called
CallApply ==
    /\ pc = "setup"
    /\ \E name \in CalledNames : EnterCall(name, OutPath)
    /\ UNCHANGED <<files, apply_frame>>

NextApplyCall == WriteSourceBlock \/ CallApply \/ NextApply

SpecApply == InitApply /\ [][NextApplyCall]_vars

(***************************************************************************)
(* Properties of the forward pass.  While the call runs, new_blocks[i] is  *)
(* the position in doc.body of what block i of the source became, 0 where  *)
(* the block was passed over.                                              *)
(***************************************************************************)

\* the forward pass has started (and may have ended)
C4_InPass == pc \in {"copy", "validate", "save", "returned"}

C4_IsPageBreak(k) ==
    /\ k \in 1..Len(doc.body)
    /\ doc.body[k].type = "p"
    /\ \E r \in 1..Len(doc.body[k].runs) : doc.body[k].runs[r].brk = "page"

\* the Heading-1 paragraphs of the source met so far
C4_Heading1s ==
    {i \in 1..Len(new_blocks) :
        /\ source_doc.body[i].type = "p"
        /\ StartsWith(source_doc.body[i].style, StyleHeading1)}

\* those of them that have a run or text that is not blank
C4_FilledHeading1s ==
    {i \in C4_Heading1s :
        \/ source_doc.body[i].runs # <<>>
        \/ Strip(ParaText(source_doc.body[i])) # <<>>}

\* C4 as stated: in the forward pass every Heading-1 paragraph of the source
\* is emitted, the first one met with no page break before it and every
\* later one immediately after a page break, and there is no other page
\* break in the output.
C4_BreakBeforeEveryHeading1ButFirst ==
    C4_InPass =>
        /\ \A i \in C4_Heading1s :
              /\ new_blocks[i] # 0
              /\ C4_IsPageBreak(new_blocks[i] - 1) <=> (\E j \in C4_Heading1s : j < i)
        /\ \A k \in 1..Len(doc.body) :
              C4_IsPageBreak(k) =>
                  \E i \in C4_Heading1s :
                      new_blocks[i] = k + 1 /\ \E j \in C4_Heading1s : j < i

\* C4 amended: a Heading-1 paragraph is emitted, as a Heading 1 with its
\* stripped text, exactly when it has a run or non-blank text; among the
\* emitted ones the first has no page break before it and every later one
\* comes immediately after a page break; there is no other page break.
C4_BreakBeforeEveryEmittedHeading1ButFirst ==
    C4_InPass =>
        /\ \A i \in C4_Heading1s : new_blocks[i] # 0 <=> i \in C4_FilledHeading1s
        /\ \A i \in C4_FilledHeading1s :
              /\ doc.body[new_blocks[i]].style = StyleHeading1
              /\ ParaText(doc.body[new_blocks[i]]) = Strip(ParaText(source_doc.body[i]))
              /\ C4_IsPageBreak(new_blocks[i] - 1)
                     <=> (\E j \in C4_FilledHeading1s : j < i)
        /\ \A k \in 1..Len(doc.body) :
              C4_IsPageBreak(k) =>
                  \E i \in C4_FilledHeading1s :
                      new_blocks[i] = k + 1 /\ \E j \in C4_FilledHeading1s : j < i

\* a call has returned whose source starts with a Heading 1 without runs,
\* followed by two Heading 1 with text, the second of them after a page break
C4_Witness ==
    /\ pc = "returned"
    /\ \E i, j, k \in C4_Heading1s :
          /\ i < j /\ j < k
          /\ new_blocks[i] = 0
          /\ new_blocks[j] # 0 /\ ~C4_IsPageBreak(new_blocks[j] - 1)
          /\ C4_IsPageBreak(new_blocks[k] - 1)

\* whether the run shows bold in a paragraph of the given style of doc: its
\* own setting, or the style's where it has none
C5_ShowsBold(run, style_name) ==
    \/ run.bold = "True"
    \/ run.bold = "None" /\ doc.styles[style_name].bold = "True"

C5_HasBoldRun(para) == \E k \in 1..Len(para.runs) : para.runs[k].bold = "True"

\* bold is kept from source paragraph src to output paragraph out: run by
\* run, or, for a heading, whose text becomes one run, on that run
C5_ParaKeepsBold(src, out) ==
    IF StartsWith(src.style, <<"H", "e", "a", "d", "i", "n", "g", " ">>)
    THEN C5_HasBoldRun(src) =>
             /\ out.runs # <<>>
             /\ \A k \in 1..Len(out.runs) : C5_ShowsBold(out.runs[k], out.style)
    ELSE \A k \in 1..Len(src.runs) :
             src.runs[k].bold = "True" =>
                 /\ k <= Len(out.runs)
                 /\ C5_ShowsBold(out.runs[k], out.style)

C5_TableKeepsBold(src, out) ==
    \A r \in 1..Len(src.rows) : \A c \in 1..Len(src.rows[r].cells) :
        \A p \in 1..Len(src.rows[r].cells[c].paras) :
            /\ r <= Len(out.rows)
            /\ c <= Len(out.rows[r].cells)
            /\ p <= Len(out.rows[r].cells[c].paras)
            /\ C5_ParaKeepsBold(src.rows[r].cells[c].paras[p],
                                out.rows[r].cells[c].paras[p])

\* C5: once the call has returned, every bold run of every emitted source
\* paragraph, whatever its role, and of every table cell is bold in the
\* output.
C5_BoldRunsStayBold ==
    pc = "returned" =>
        \A i \in 1..Len(new_blocks) :
            new_blocks[i] # 0 =>
                IF source_doc.body[i].type = "p"
                THEN C5_ParaKeepsBold(source_doc.body[i], doc.body[new_blocks[i]])
                ELSE C5_TableKeepsBold(source_doc.body[i], doc.body[new_blocks[i]])

C6_CellCounts(t) == [r \in 1..Len(t.rows) |-> Len(t.rows[r].cells)]

C6_Ragged(t) == Cardinality({Len(t.rows[r].cells) : r \in 1..Len(t.rows)}) > 1

\* C6: once the call has returned, every source table has become a table
\* with the same number of rows and, row by row, the same number of cells,
\* and where the rows of a source table differ in their number of cells the
\* returned issues hold a critical table issue.
C6_TableShapeKeptAndAnomalyReported ==
    pc = "returned" =>
        \A i \in 1..Len(new_blocks) :
            source_doc.body[i].type = "tbl" =>
                /\ new_blocks[i] # 0
                /\ doc.body[new_blocks[i]].type = "tbl"
                /\ C6_CellCounts(doc.body[new_blocks[i]]) = C6_CellCounts(source_doc.body[i])
                /\ C6_Ragged(source_doc.body[i]) =>
                       \E n \in 1..Len(issues) :
                           issues[n].category = "tables" /\ issues[n].severity = "critical"

\* two hexadecimal digits of n < 256
C7_Hex2(n) == <<HexDigits[(n \div 16) + 1], HexDigits[(n % 16) + 1]>>

\* '#RRGGBB' of a colour of the document
C7_HexOf(rgb) == <<"#">> \o C7_Hex2(rgb[1]) \o C7_Hex2(rgb[2]) \o C7_Hex2(rgb[3])

\* font, size and colour the run shows in a paragraph of the given style of
\* doc: its own settings, or the style's where it has none
C7_Shown(run, style_name) ==
    [font |-> IF run.font # "" THEN run.font ELSE doc.styles[style_name].font,
     size |-> IF run.size # 0 THEN run.size ELSE doc.styles[style_name].size,
     color |-> C7_HexOf(IF run.color # <<>> THEN run.color
                        ELSE doc.styles[style_name].color)]

\* every run of the output paragraph shows the font, the size and the colour
\* (a '#RRGGBB' string of the profile)
C7_ParaShows(out, font, size, hex_color) ==
    \A k \in 1..Len(out.runs) :
        LET shown == C7_Shown(out.runs[k], out.style)
        IN  /\ shown.font = font
            /\ shown.size = size
            /\ Lower(shown.color) = Lower(hex_color)

\* the source paragraphs the call has emitted, by role
C7_Emitted(roles) ==
    {i \in 1..Len(new_blocks) :
        /\ new_blocks[i] # 0
        /\ source_doc.body[i].type = "p"
        /\ StyleRole(source_doc.body[i].style) \in roles}

\* C7 as stated: once a call with a valid brand id has returned, every
\* emitted Heading 1, 2, 3 has the heading font and its level's size and
\* colour of the profile, every Title the heading font and the size and
\* colour of one of the profile's style specs, and every body paragraph the
\* body font and the size and colour of the profile's body style, whatever
\* the formatting of the source runs.
C7_RolesShowProfileStyleSpecs ==
    pc = "returned" =>
        /\ \A i \in C7_Emitted({"h1", "h2", "h3"}) :
              LET spec == brand.styles[StyleRole(source_doc.body[i].style)]
              IN  C7_ParaShows(doc.body[new_blocks[i]], brand.typography.headingFont,
                               spec.size, spec.color)
        /\ \A i \in C7_Emitted({"title"}) :
              \E role \in {"h1", "h2", "h3", "body"} :
                  C7_ParaShows(doc.body[new_blocks[i]], brand.typography.headingFont,
                               brand.styles[role].size, brand.styles[role].color)
        /\ \A i \in C7_Emitted({"body"}) :
              C7_ParaShows(doc.body[new_blocks[i]], brand.typography.bodyFont,
                           brand.styles.body.size, brand.styles.body.color)

\* C7 amended: once a call with a valid brand id has returned, every emitted
\* Heading 1, 2, 3 has the heading font and its level's size and colour,
\* every Title the heading font, the h1 size plus 14 and the primary colour,
\* and every body paragraph the body font, the body size and the textPrimary
\* colour of the palette, whatever the formatting of the source runs.
C7_RolesShowBrandValues ==
    pc = "returned" =>
        /\ \A i \in C7_Emitted({"h1", "h2", "h3"}) :
              LET spec == brand.styles[StyleRole(source_doc.body[i].style)]
              IN  C7_ParaShows(doc.body[new_blocks[i]], brand.typography.headingFont,
                               spec.size, spec.color)
        /\ \A i \in C7_Emitted({"title"}) :
              C7_ParaShows(doc.body[new_blocks[i]], brand.typography.headingFont,
                           brand.styles.h1.size + 14, brand.colors.primary)
        /\ \A i \in C7_Emitted({"body"}) :
              C7_ParaShows(doc.body[new_blocks[i]], brand.typography.bodyFont,
                           brand.styles.body.size, brand.colors.textPrimary)

\* a call has returned on a source with a Title, a Heading 1 and a body
\* paragraph whose runs have a font, a size and a colour of their own
C7_Witness ==
    /\ pc = "returned"
    /\ C7_Emitted({"title"}) # {}
    /\ C7_Emitted({"h1"}) # {}
    /\ \E i \in C7_Emitted({"body"}) :
          \E k \in 1..Len(source_doc.body[i].runs) :
              /\ source_doc.body[i].runs[k].font = "Courier"
              /\ source_doc.body[i].runs[k].size = 9
              /\ source_doc.body[i].runs[k].color = <<200, 0, 0>>

(***************************************************************************)
(* apply_multiple_brands(input_path, brands, output_prefix), step by step  *)
(***************************************************************************)

\* s.endswith(suffix)
EndsWith(s, suffix) ==
    /\ Len(suffix) <= Len(s)
    /\ \A k \in 1..Len(suffix) : s[Len(s) - Len(suffix) + k] = suffix[k]

DotDocx == <<".", "d", "o", "c", "x">>

\* output_path without the test for the extension
OutputPathFor_append_only(prefix, brand_lower) ==
    prefix \o <<"_">> \o brand_lower \o DotDocx

\* output_path for brand_lower (1018-1022)
OutputPathFor(prefix, brand_lower) ==
    LET base == IF EndsWith(prefix, DotDocx) THEN Slice(prefix, 0, Len(prefix) - 5)
                ELSE prefix
    IN  base \o <<"_">> \o brand_lower \o DotDocx

\* the lines printed for the first three issues (1037-1040)
IssueLines(found, quality) ==
    IF found # <<>> /\ quality \in {"NEEDS_ATTENTION", "FAILED"}
    THEN LET shown == SelectSeq(Slice(found, 0, 3), LAMBDA issue : ~issue.auto_fixed)
         IN  [n \in 1..Len(shown) |->
                 [kind |-> "issue", severity |-> shown[n].severity,
                  message |-> shown[n].message]]
    ELSE <<>>

\* an except clause that lets everything but ValueError through
Caught_value_error_only(exc) == exc = "ValueError"

\* `except Exception` (1044): whether the clause catches the exception
Caught(exc) == exc \notin {"KeyboardInterrupt", "SystemExit", "GeneratorExit"}

\* what a step of the batch function leaves alone outside the call it makes
batch_frame == <<config_file, input_file, py_sum, load_name, load_result, table,
                 optimized, main_vars>>

\* the next brand of the loop: brand_lower, output_path and the call (1014-1025)
BatchTry ==
    /\ batch_pc = "loop"
    /\ brand_index <= Len(brands)
    /\ LET brand_lower == Strip(Lower(brands[brand_index]))
       IN  EnterCall(brand_lower, OutputPathFor(output_prefix, brand_lower))
    /\ batch_pc' = "call"
    /\ UNCHANGED <<brands, output_prefix, brand_index, results, stdout, files,
                   batch_frame>>

\* the call has returned: the report lines and results.append (1025-1042)
BatchCreated ==
    /\ batch_pc = "call"
    /\ pc = "returned"
    /\ LET result_path == outcome.value[1]
           quality == outcome.value[2]
           found == outcome.value[3]
       IN  /\ stdout' = Append(stdout, [kind |-> "created", path |-> result_path,
                                        quality |-> quality])
                            \o IssueLines(found, quality)
           /\ results' = Append(results, <<result_path, quality>>)
    /\ brand_index' = brand_index + 1
    /\ batch_pc' = "loop"
    /\ UNCHANGED <<brands, output_prefix, apply_vars, validate_vars, load_vars,
                   width_vars, main_vars>>

\* the call has raised: the except clause and its line (1044-1045)
BatchExcept ==
    /\ batch_pc = "call"
    /\ pc = "raised"
    /\ IF Caught(outcome.exc)
       THEN /\ stdout' = Append(stdout, [kind |-> "error",
                                         brand |-> brands[brand_index],
                                         exc |-> outcome.exc, msg |-> outcome.msg])
            /\ brand_index' = brand_index + 1
            /\ batch_pc' = "loop"
       ELSE /\ stdout' = stdout
            /\ brand_index' = brand_index
            /\ batch_pc' = "raised"
    /\ UNCHANGED <<brands, output_prefix, results, apply_vars, validate_vars,
                   load_vars, width_vars, main_vars>>

\* return results (1047)
BatchReturn ==
    /\ batch_pc = "loop"
    /\ brand_index > Len(brands)
    /\ batch_pc' = "returned"
    /\ UNCHANGED <<brands, output_prefix, brand_index, results, stdout, apply_vars,
                   validate_vars, load_vars, width_vars, main_vars>>

NextBatch ==
    \/ BatchTry
    \/ BatchCreated
    \/ BatchExcept
    \/ BatchReturn
    \/ NextApply

(***************************************************************************)
(* One call apply_multiple_brands(input_path, brands, output_prefix)       *)
(***************************************************************************)

\* longest brand list
MaxBrands == 3

GlobexSpaced == <<" ", "G", "l", "o", "b", "e", "x">>

\* the entries of the brand lists: a registered id, a registered id in mixed
\* case after a blank, and an unknown id
BatchNames == {Acme, GlobexSpaced, <<"x">>}

\* the input documents of the batch: headings and text, or a table
BatchInputs ==
    { [kind |-> "missing"],
      [kind |-> "docx",
       body |-> <<NewParagraph(StyleHeading1, <<NewRun(<<"I", "n", "t", "r", "o">>)>>),
                  NewParagraph(StyleNormal, <<NewRun(<<"h", "i", " ", "t", "h", "e", "r", "e">>)>>)>>],
      [kind |-> "docx",
       body |-> <<SourceTable(2, << << <<NewRun(<<"A">>)>>, <<NewRun(<<"B">>)>> >>,
                                    << <<NewRun(<<"x">>)>>, <<NewRun(<<"y">>)>> >> >>)>>] }

InitBatch ==
    /\ config_file \in {"present", "missing"}
    /\ py_sum \in {"naive", "neumaier"}
    /\ input_file \in BatchInputs
    /\ output_prefix \in {<<"o", "u", "t">>, OutPath}
    /\ batch_pc = "setup"
    /\ brands = <<>>
    /\ brand_index = 0
    /\ results = <<>>
    /\ stdout = <<>>
    /\ pc = "idle"
    /\ brand_name = <<>>
    /\ output_path = <<>>
    /\ brand = NoResult
    /\ source_doc = NoResult
    /\ elem = 0
    /\ first_h1_seen = FALSE
    /\ tables_to_process = <<>>
    /\ new_blocks = <<>>
    /\ outcome = NoResult
    /\ files = {}
    /\ ValidateIdle
    /\ load_name = <<>>
    /\ load_result = NoResult
    /\ table = NewTable(0, <<>>)
    /\ optimized = FALSE
    /\ main_pc = "idle"
    /\ argv = <<>>
    /\ exit_code = NoResult

\* the caller's brand list gets one more entry
AddBrand ==
    /\ batch_pc = "setup"
    /\ Len(brands) < MaxBrands
    /\ \E name \in BatchNames : brands' = Append(brands, name)
    /\ UNCHANGED <<batch_pc, output_prefix, brand_index, results, stdout, apply_vars,
                   validate_vars, load_vars, width_vars, main_vars>>

\* apply_multiple_brands is called: results = [] and the loop starts (1013)
CallBatch ==
    /\ batch_pc = "setup"
    /\ batch_pc' = "loop"
    /\ brand_index' = 1
    /\ results' = <<>>
    /\ UNCHANGED <<brands, output_prefix, stdout, apply_vars, validate_vars,
                   load_vars, width_vars, main_vars>>

NextBatchCall == AddBrand \/ CallBatch \/ NextBatch

SpecBatch == InitBatch /\ [][NextBatchCall]_vars

\* whether applying the k-th brand of the list succeeds: the registry and the
\* input are there and the entry, lower-cased and stripped, is a registered id
C10_Succeeds(k) ==
    /\ config_file = "present"
    /\ input_file.kind = "docx"
    /\ Strip(Lower(brands[k])) \in BrandIds

\* the file written for a brand that succeeds
C10_PathOf(name) == <<"o", "u", "t", "_">> \o Strip(Lower(name)) \o DotDocx

\* the positions in the list of the brands that succeed, in order
C10_Successes ==
    SelectSeq([k \in 1..Len(brands) |-> k], LAMBDA k : C10_Succeeds(k))

\* the lines that report a brand: file created, or error
C10_Reports ==
    SelectSeq(stdout, LAMBDA line : line.kind \in {"created", "error"})

\* C10: the batch never ends in an exception, and when it has returned every
\* brand of the list was attempted and reported in order, the result list
\* holds exactly the brands that succeeded, in input order, each with the
\* path of its file, which exists, and no file exists for a brand that failed.
C10_BatchSurvivesFailures ==
    /\ batch_pc # "raised"
    /\ batch_pc = "returned" =>
          /\ Len(C10_Reports) = Len(brands)
          /\ \A k \in 1..Len(brands) :
                IF C10_Succeeds(k)
                THEN /\ C10_Reports[k].kind = "created"
                     /\ C10_Reports[k].path = C10_PathOf(brands[k])
                ELSE /\ C10_Reports[k].kind = "error"
                     /\ C10_Reports[k].brand = brands[k]
          /\ Len(results) = Len(C10_Successes)
          /\ \A n \in 1..Len(results) :
                /\ results[n][1] = C10_PathOf(brands[C10_Successes[n]])
                /\ \E f \in files : f.path = results[n][1]
          /\ {f.path : f \in files}
                 = {C10_PathOf(brands[C10_Successes[n]]) : n \in 1..Len(C10_Successes)}

\* the batch has returned for a valid, an unknown and another valid brand:
\* two results, two files, one error line
C10_Witness ==
    /\ batch_pc = "returned"
    /\ Len(brands) = 3
    /\ C10_Succeeds(1) /\ ~C10_Succeeds(2) /\ C10_Succeeds(3)
    /\ Len(results) = 2
    /\ Cardinality(files) = 2
    /\ C10_Reports[2].kind = "error"

(***************************************************************************)
(* The output path of one brand of apply_multiple_brands                   *)
(***************************************************************************)

\* the output prefixes: without extension, with '.docx' in lower and in upper
\* case, with another extension, the bare extension, and the empty string
PathPrefixes ==
    { <<>>, <<"o", "u", "t">>, OutPath, DotDocx,
      <<"o", "u", "t", ".", "D", "O", "C", "X">>,
      <<"o", "u", "t", ".", "d", "o", "c">> }

\* a call of apply_multiple_brands about to handle its only brand
InitPath ==
    /\ config_file = "present"
    /\ py_sum = "naive"
    /\ input_file = [kind |-> "missing"]
    /\ output_prefix \in PathPrefixes
    /\ brands \in {<<name>> : name \in LoadNames \cup {GlobexSpaced}}
    /\ batch_pc = "loop"
    /\ brand_index = 1
    /\ results = <<>>
    /\ stdout = <<>>
    /\ pc = "idle"
    /\ brand_name = <<>>
    /\ output_path = <<>>
    /\ brand = NoResult
    /\ source_doc = NoResult
    /\ elem = 0
    /\ first_h1_seen = FALSE
    /\ tables_to_process = <<>>
    /\ new_blocks = <<>>
    /\ outcome = NoResult
    /\ files = {}
    /\ ValidateIdle
    /\ load_name = <<>>
    /\ load_result = NoResult
    /\ table = NewTable(0, <<>>)
    /\ optimized = FALSE
    /\ main_pc = "idle"
    /\ argv = <<>>
    /\ exit_code = NoResult

NextPath == BatchTry

SpecPath == InitPath /\ [][NextPath]_vars

\* the path has been derived for the brand at hand
C11_Derived == batch_pc = "call" /\ pc = "load"

\* '<brand_id>' of the brand at hand
C11_BrandId == Strip(Lower(brands[brand_index]))

\* the last five characters of the prefix, and what is before them
C11_Extension == SubSeq(output_prefix, Len(output_prefix) - 4, Len(output_prefix))

C11_Stem == SubSeq(output_prefix, 1, Len(output_prefix) - 5)

\* the paths of the other brand ids under the same prefix differ from this one
C11_OtherIdsDiffer ==
    \A other \in LoadNames :
        Strip(Lower(other)) # C11_BrandId
            => OutputPathFor(output_prefix, Strip(Lower(other))) # output_path

\* C11 as stated: where the prefix ends in '.docx', in whatever case, the path
\* is the prefix with '_<brand_id>' put in before that extension; otherwise
\* it is the prefix with '_<brand_id>' appended; distinct ids give distinct
\* paths.
C11_IdBeforeExtensionOrAppended ==
    C11_Derived =>
        /\ IF Len(output_prefix) >= 5
              /\ C11_Extension \in {DotDocx, <<".", "D", "O", "C", "X">>}
           THEN output_path = C11_Stem \o <<"_">> \o C11_BrandId \o C11_Extension
           ELSE output_path = output_prefix \o <<"_">> \o C11_BrandId
        /\ C11_OtherIdsDiffer

\* C11 amended: where the prefix ends in exactly '.docx' (lower case), the
\* path is the prefix with '_<brand_id>' put in before that extension;
\* otherwise it is the prefix with '_<brand_id>.docx' appended; the brand id
\* is the list entry lower-cased and stripped; distinct ids give distinct
\* paths.
C11_IdBeforeDocxOrAppendedWithDocx ==
    C11_Derived =>
        /\ IF Len(output_prefix) >= 5 /\ C11_Extension = DotDocx
           THEN output_path = C11_Stem \o <<"_">> \o C11_BrandId \o DotDocx
           ELSE output_path = output_prefix \o <<"_">> \o C11_BrandId \o DotDocx
        /\ brand_name = C11_BrandId
        /\ C11_OtherIdsDiffer

\* the path for entry ' Globex' under 'out.docx' is 'out_globex.docx'
C11_Witness ==
    /\ C11_Derived
    /\ output_prefix = OutPath
    /\ brands = <<GlobexSpaced>>
    /\ output_path = <<"o", "u", "t", "_", "g", "l", "o", "b", "e", "x", ".", "d", "o", "c", "x">>

(***************************************************************************)
(* Properties of the formatted tables                                      *)
(***************************************************************************)

\* format_table has run on every new table of the call
C12_Formatted == pc \in {"validate", "save", "returned"}

\* the runs of a cell, over all its paragraphs
C12_CellRuns(cell) ==
    {cell.paras[p].runs[r] : <<p, r>> \in
        {<<p, r>> \in (1..Len(cell.paras)) \X (1..4) : r <= Len(cell.paras[p].runs)}}

\* the tables of the new document
C12_NewTables == {k \in 1..Len(doc.body) : doc.body[k].type = "tbl"}

\* C12: once format_table has run, in every table of the new document with
\* at least one row every cell of the first row has the brand's primary
\* colour as fill and every run in it is white and bold, whatever the
\* formatting of the source runs.
C12_HeaderRowPrimaryFillWhiteBold ==
    C12_Formatted =>
        \A k \in C12_NewTables :
            doc.body[k].rows # <<>> =>
                \A c \in 1..Len(doc.body[k].rows[1].cells) :
                    LET cell == doc.body[k].rows[1].cells[c]
                    IN  /\ <<"#">> \o cell.shading = brand.colors.primary
                        /\ \A run \in C12_CellRuns(cell) :
                              run.color = <<255, 255, 255>> /\ run.bold = "True"

\* a call has returned on a source table whose header holds a run that is
\* explicitly not bold and has a colour of its own
C12_Witness ==
    /\ pc = "returned"
    /\ \E i \in 1..Len(new_blocks) :
          /\ source_doc.body[i].type = "tbl"
          /\ \E c \in 1..Len(source_doc.body[i].rows[1].cells) :
                \E run \in C12_CellRuns(source_doc.body[i].rows[1].cells[c]) :
                    run.bold = "False" /\ run.color = <<200, 0, 0>>
          /\ \E c \in 1..Len(doc.body[new_blocks[i]].rows[1].cells) :
                C12_CellRuns(doc.body[new_blocks[i]].rows[1].cells[c]) # {}

\* C13: once format_table has run, in every table of the new document the
\* body row numbered k, counting from 1 at the first row after the header,
\* has fill F8F9FA in all its cells when k is even and no fill when k is
\* odd, and every run of every body row has the brand's textPrimary colour.
C13_EvenBodyRowsFilledTextPrimary ==
    C12_Formatted =>
        \A t \in C12_NewTables :
            \A n \in 2..Len(doc.body[t].rows) :
                \A c \in 1..Len(doc.body[t].rows[n].cells) :
                    LET cell == doc.body[t].rows[n].cells[c]
                        k == n - 1
                    IN  /\ IF k % 2 = 0
                           THEN cell.shading = <<"F", "8", "F", "9", "F", "A">>
                           ELSE cell.shading = <<>>
                        /\ \A run \in C12_CellRuns(cell) :
                              Lower(C7_HexOf(run.color)) = Lower(brand.colors.textPrimary)

\* a call has returned on a table with two body rows, the first without fill
\* and the second with it, whose source has a body run in a colour of its own
C13_Witness ==
    /\ pc = "returned"
    /\ \E i \in 1..Len(new_blocks) :
          /\ source_doc.body[i].type = "tbl"
          /\ Len(source_doc.body[i].rows) = 3
          /\ \E run \in C12_CellRuns(source_doc.body[i].rows[2].cells[1]) :
                run.color = <<200, 0, 0>>
          /\ doc.body[new_blocks[i]].rows[2].cells[1].shading = <<>>
          /\ doc.body[new_blocks[i]].rows[3].cells[1].shading # <<>>

(***************************************************************************)
(* Properties of the steps of one call of apply_brand_to_docx              *)
(***************************************************************************)

\* the issues of the validator that count for the level
C14_Counting ==
    {n \in 1..Len(issues) :
        issues[n].severity \in {"critical", "warning"} /\ ~issues[n].auto_fixed}

C15_Fails ==
    \/ config_file = "missing"
    \/ \A id \in BrandIds : ~DiffersOnlyInCase(brand_name, id)
    \/ input_file.kind # "docx"

\* C15: a call that fails for one of these reasons never returns and leaves
\* no file; a call that has raised has written no file; and a file is
\* written only by the last step, the save, on the way to the return.
C15_NoFileFromFailedCall ==
    /\ [](pc \notin {"idle", "setup"} /\ C15_Fails => pc # "returned" /\ files = {})
    /\ [](pc = "raised" => files = {})
    /\ [][files' # files =>
             /\ pc = "save" /\ pc' = "returned"
             /\ outcome'.kind = "return"
             /\ files' \ files = {[path |-> output_path, doc |-> doc]}]_vars

\* a call on a file that is no document package has raised, and nothing is
\* written
C15_Witness ==
    /\ pc = "raised"
    /\ outcome.exc = "PackageNotFoundError"
    /\ input_file.kind = "malformed"
    /\ files = {}

(***************************************************************************)
(* One brand of a batch against the same brand applied alone               *)
(***************************************************************************)

\* the body a forward pass over src[i..] adds to out, seen being whether a
\* Heading 1 has been emitted, for profile b
RECURSIVE C16_CopyFrom(_, _, _, _, _)
C16_CopyFrom(src, i, out, seen, b) ==
    IF i > Len(src) THEN out
    ELSE IF src[i].type = "tbl"
    THEN C16_CopyFrom(src, i + 1,
             out \o <<Spacer(18, 6),
                      copy_table(src[i], b.typography.bodyFont, b.styles.body.size,
                                 hex_to_rgb(b.colors.textPrimary)),
                      Spacer(6, 24)>>,
             seen, b)
    ELSE IF Skipped(src[i]) THEN C16_CopyFrom(src, i + 1, out, seen, b)
    ELSE C16_CopyFrom(src, i + 1,
             out \o BreaksBefore(src[i].style, seen) \o <<NewPara(src[i], b)>>,
             seen \/ StyleRole(src[i].style) = "h1", b)

\* the document that applying profile b alone to the source body makes
C16_AloneFor(src, b, py) ==
    LET copied == C16_CopyFrom(src, 1, <<>>, FALSE, b)
    IN  [StyledDocument(b) EXCEPT !.body =
            [k \in 1..Len(copied) |->
                IF copied[k].type = "tbl" THEN format_table(py, copied[k], b)
                ELSE copied[k]]]

C16_Alone == C16_AloneFor(input_file.body, BrandRegistry[Lower(brand_name)], py_sum)

C17_IsFormatted(t) ==
    /\ t.tblW = 5000
    /\ t.cell_margins.top = 80
    /\ \A n \in 1..Len(t.rows) : t.rows[n].height_rule = "AT_LEAST"

\* whether the table is as _copy_table leaves it
C17_IsUnformatted(t) ==
    /\ t.tblW = 0
    /\ t.cell_margins.top = 0
    /\ \A n \in 1..Len(t.rows) : t.rows[n].height_rule = "None"

\* C17: within one call the copy of all source blocks comes first, during
\* which no table is formatted; then every copied table is formatted, in one
\* step; then the validator runs, once, on that document, all of whose
\* tables are formatted; then that same document is saved.
C17_CopyFormatValidateSave ==
    /\ [](pc = "copy" =>
             /\ validate_calls = 0
             /\ \A k \in C12_NewTables : C17_IsUnformatted(doc.body[k]))
    /\ [](pc \in {"validate", "save", "returned"} =>
             /\ Len(new_blocks) = Len(source_doc.body)
             /\ \A k \in C12_NewTables : C17_IsFormatted(doc.body[k])
             /\ validate_calls = IF pc = "validate" THEN 0 ELSE 1)
    /\ [](pc = "returned" =>
             /\ files = {[path |-> output_path, doc |-> doc]}
             /\ issues = CollectIssues(doc))
    /\ [][ /\ pc' = "validate" /\ pc # "validate" =>
                 pc = "copy" /\ elem > Len(source_doc.body)
           /\ pc' = "save" /\ pc # "save" => pc = "validate" /\ doc' = doc
           /\ pc' = "returned" /\ pc # "returned" => pc = "save" /\ doc' = doc
           /\ pc = "copy" /\ pc' = "copy" =>
                 elem' = elem + 1 /\ Len(new_blocks') = elem ]_vars

\* a call has returned on a source of a paragraph and two tables
C17_Witness ==
    /\ pc = "returned"
    /\ validate_calls = 1
    /\ Cardinality(C12_NewTables) = 2
    /\ \E i \in 1..Len(new_blocks) :
          new_blocks[i] # 0 /\ source_doc.body[i].type = "p"

(***************************************************************************)
(* The output against the source, block by block                           *)
(***************************************************************************)

\* the output blocks that stand for no source block: page breaks and the
\* empty paragraphs around tables
C18_IsFiller(blk) ==
    /\ blk.type = "p"
    /\ \/ \E r \in 1..Len(blk.runs) : blk.runs[r].brk = "page"
       \/ blk.runs = <<>> /\ blk.style = StyleNormal

\* the source blocks that are not passed over
C18_IsKept(blk) ==
    blk.type = "tbl" \/ blk.runs # <<>> \/ Strip(ParaText(blk)) # <<>>

\* the texts of a table, row by row
C18_TableTexts(t) ==
    [r \in 1..Len(t.rows) |->
        [c \in 1..Len(t.rows[r].cells) |-> CellText(t.rows[r].cells[c])]]

\* whether output block out holds what source block src holds: the text of
\* the paragraph (stripped, for a heading), the texts of the source's cells
C18_Holds(out, src) ==
    /\ out.type = src.type
    /\ IF src.type = "p"
       THEN ParaText(out) = IF StartsWith(src.style, <<"H", "e", "a", "d", "i", "n", "g", " ">>)
                            THEN Strip(ParaText(src)) ELSE ParaText(src)
       ELSE /\ Len(out.rows) = Len(src.rows)
            /\ \A r \in 1..Len(src.rows) : \A c \in 1..Len(src.rows[r].cells) :
                  /\ c <= Len(out.rows[r].cells)
                  /\ C18_TableTexts(out)[r][c] = C18_TableTexts(src)[r][c]

\* C18: once the copy and the formatting are done, the output blocks other
\* than page breaks and table spacers are, one for one and in the same
\* order, the source blocks that were not passed over, paragraphs and tables
\* interleaved as in the source.
C18_SourceOrderKept ==
    C12_Formatted =>
        LET outs == SelectSeq(doc.body, LAMBDA blk : ~C18_IsFiller(blk))
            srcs == SelectSeq(source_doc.body, C18_IsKept)
        IN  /\ Len(outs) = Len(srcs)
            /\ \A k \in 1..Len(srcs) : C18_Holds(outs[k], srcs[k])

\* a call has returned on a source of a table between two paragraphs
C18_Witness ==
    /\ pc = "returned"
    /\ Len(source_doc.body) = 3
    /\ source_doc.body[1].type = "p" /\ C18_IsKept(source_doc.body[1])
    /\ source_doc.body[2].type = "tbl"
    /\ source_doc.body[3].type = "p" /\ C18_IsKept(source_doc.body[3])
    /\ source_doc.body[1] # source_doc.body[3]

\* the source paragraphs the forward pass has gone through
C19_Passed == {i \in 1..Len(new_blocks) : source_doc.body[i].type = "p"}

\* no text and no runs
C19_IsEmpty(para) == para.runs = <<>> /\ Strip(ParaText(para)) = <<>>

\* C19 as stated: a source paragraph is left out of the output exactly when
\* it falls in the generic branch and has neither text nor runs; every other
\* paragraph is in the output.
C19_DroppedIffGenericAndEmpty ==
    C4_InPass =>
        \A i \in C19_Passed :
            new_blocks[i] = 0 <=>
                (StyleRole(source_doc.body[i].style) = "body"
                 /\ C19_IsEmpty(source_doc.body[i]))

\* C19: a source paragraph is left out of the output exactly when it has
\* neither text nor runs, whatever its style; every paragraph with a run or
\* with text is in the output, at the place recorded for it.
C19_DroppedIffEmpty ==
    C4_InPass =>
        \A i \in C19_Passed :
            /\ new_blocks[i] = 0 <=> C19_IsEmpty(source_doc.body[i])
            /\ new_blocks[i] # 0 =>
                  /\ new_blocks[i] \in 1..Len(doc.body)
                  /\ C18_Holds(doc.body[new_blocks[i]], source_doc.body[i])

\* the pass has left out a Heading 1 and a body paragraph, both without runs,
\* and has put a paragraph with runs in the output
C19_Witness ==
    /\ C4_InPass
    /\ \E i, j, k \in C19_Passed :
          /\ source_doc.body[i].style = StyleHeading1 /\ new_blocks[i] = 0
          /\ source_doc.body[j].style = StyleNormal /\ new_blocks[j] = 0
          /\ source_doc.body[k].runs # <<>> /\ new_blocks[k] # 0

(***************************************************************************)
(* The classification of one paragraph: the calls of apply_brand_to_docx   *)
(* on sources of one paragraph, over the style names of the templates and  *)
(* names that extend or contain them                                       *)
(***************************************************************************)

\* the style name of the captions
C20_Caption == <<"C", "a", "p", "t", "i", "o", "n">>

\* the style names of the one paragraph
ClassifyStyles ==
    { <<"T", "i", "t", "l", "e">>,
      <<"T", "i", "t", "l", "e", " ", "P", "a", "g", "e">>,
      <<"S", "u", "b", "t", "i", "t", "l", "e">>,
      <<"S", "u", "b", "t", "i", "t", "l", "e", " ", "2">>,
      <<"H", "e", "a", "d", "i", "n", "g", " ", "1">>,
      <<"H", "e", "a", "d", "i", "n", "g", " ", "1", "0">>,
      <<"H", "e", "a", "d", "i", "n", "g", " ", "2">>,
      <<"H", "e", "a", "d", "i", "n", "g", " ", "3">>,
      <<"H", "e", "a", "d", "i", "n", "g", " ", "4">>,
      <<"L", "i", "s", "t", " ", "B", "u", "l", "l", "e", "t">>,
      <<"L", "i", "s", "t", " ", "B", "u", "l", "l", "e", "t", " ", "2">>,
      <<"M", "y", " ", "L", "i", "s", "t", " ", "B", "u", "l", "l", "e", "t">>,
      <<"L", "i", "s", "t", " ", "N", "u", "m", "b", "e", "r">>,
      <<"L", "i", "s", "t", " ", "N", "u", "m", "b", "e", "r", " ", "2">>,
      <<"Q", "u", "o", "t", "e">>,
      <<"I", "n", "t", "e", "n", "s", "e", " ", "Q", "u", "o", "t", "e">>,
      <<"Q", "u", "o", "t", "e", " ", "L", "i", "s", "t", " ", "N", "u", "m", "b", "e", "r">>,
      <<"C", "a", "p", "t", "i", "o", "n">>,
      <<"C", "a", "p", "t", "i", "o", "n", " ", "2">>,
      <<"T", "a", "b", "l", "e", " ", "C", "a", "p", "t", "i", "o", "n">>,
      <<"N", "o", "r", "m", "a", "l">>,
      <<"B", "o", "d", "y", " ", "T", "e", "x", "t">> }

\* the input file is a .docx of one paragraph of one run
InitClassify ==
    /\ config_file = "present"
    /\ py_sum = "naive"
    /\ input_file \in {[kind |-> "docx",
                        body |-> <<NewParagraph(style_name, <<SourceRun(<<"t">>, "True")>>)>>]
                       : style_name \in ClassifyStyles}
    /\ pc = "setup"
    /\ brand_name = <<>>
    /\ output_path = <<>>
    /\ brand = NoResult
    /\ source_doc = NoResult
    /\ elem = 0
    /\ first_h1_seen = FALSE
    /\ tables_to_process = <<>>
    /\ new_blocks = <<>>
    /\ outcome = NoResult
    /\ files = {}
    /\ ValidateIdle
    /\ load_name = <<>>
    /\ load_result = NoResult
    /\ table = NewTable(0, <<>>)
    /\ optimized = FALSE
    /\ BatchIdle

NextClassify == CallApply \/ NextApply

SpecClassify == InitClassify /\ [][NextClassify]_vars

\* the role the output paragraph shows by its style, alignment and spacing
C20_Shown(out) ==
    IF out.style = StyleHeading1 THEN "h1"
    ELSE IF out.style = StyleHeading2 THEN "h2"
    ELSE IF out.style = StyleHeading3 THEN "h3"
    ELSE IF out.style = StyleListBullet THEN "bullet"
    ELSE IF out.style = StyleListNumber THEN "number"
    ELSE IF out.alignment = "CENTER" /\ out.space_before = 100 /\ out.space_after = 24
    THEN "title"
    ELSE IF out.alignment = "CENTER" /\ out.space_after = 36 THEN "subtitle"
    ELSE IF out.space_before = 12 /\ out.space_after = 12 /\ out.indent # 0 THEN "quote"
    ELSE IF out.space_before = 0 /\ out.space_after = 10 THEN "body"
    ELSE "other"

\* the role of a style name by prefix, in the stated priority
C20_PrefixRole(style_name) ==
    IF StartsWith(style_name, StyleTitle) THEN "title"
    ELSE IF StartsWith(style_name, StyleSubtitle) THEN "subtitle"
    ELSE IF StartsWith(style_name, StyleHeading1) THEN "h1"
    ELSE IF StartsWith(style_name, StyleHeading2) THEN "h2"
    ELSE IF StartsWith(style_name, StyleHeading3) THEN "h3"
    ELSE IF StartsWith(style_name, StyleListBullet) THEN "bullet"
    ELSE IF StartsWith(style_name, StyleListNumber) THEN "number"
    ELSE IF StartsWith(style_name, WordQuote) THEN "quote"
    ELSE IF StartsWith(style_name, C20_Caption) THEN "caption"
    ELSE "body"

\* C20 as stated: the paragraph is given the role its style name has by
\* prefix match, in the priority Title, Subtitle, Heading 1/2/3, List Bullet,
\* List Number, Quote, Caption, else the body; and no call fails once the
\* source is open.
C20_ClassifiedByPrefix ==
    /\ pc \in {"validate", "save", "returned"} /\ Len(source_doc.body) = 1
           /\ source_doc.body[1].type = "p" /\ new_blocks[1] # 0 =>
           C20_Shown(doc.body[new_blocks[1]]) = C20_PrefixRole(source_doc.body[1].style)
    /\ pc = "raised" => source_doc = NoResult

(***************************************************************************)
(* The paragraphs around the tables of the output                          *)
(***************************************************************************)

\* the space after a body paragraph of the output, in points (line 904)
C21_BodySpacing == 10

\* an empty paragraph of the output at position k
C21_IsEmptyPara(k) ==
    /\ k \in 1..Len(doc.body)
    /\ doc.body[k].type = "p"
    /\ doc.body[k].runs = <<>>

\* C21 as stated: every table of the output stands between two empty
\* paragraphs, the one before with a space after of at least the body
\* spacing, the one after with a space after of at least twice the body
\* spacing.
C21_SpacersWithSpaceAfter ==
    C4_InPass =>
        \A k \in C12_NewTables :
            /\ C21_IsEmptyPara(k - 1) /\ C21_IsEmptyPara(k + 1)
            /\ doc.body[k - 1].space_after >= C21_BodySpacing
            /\ doc.body[k + 1].space_after >= 2 * C21_BodySpacing

\* C21: every table of the output stands between two empty paragraphs of
\* its own, so that no two tables are adjacent; the one before has 18 points
\* before it, which is at least the body spacing, and 6 after it, which is
\* less; the one after has 6 points before it and 24 after it, which is at
\* least twice the body spacing.
C21_SpacersAroundEveryTable ==
    C4_InPass =>
        /\ \A k \in C12_NewTables :
              /\ C21_IsEmptyPara(k - 1) /\ C21_IsEmptyPara(k + 1)
              /\ doc.body[k - 1].space_before = 18
              /\ doc.body[k - 1].space_before >= C21_BodySpacing
              /\ doc.body[k - 1].space_after = 6
              /\ doc.body[k - 1].space_after < C21_BodySpacing
              /\ doc.body[k + 1].space_before = 6
              /\ doc.body[k + 1].space_after = 24
              /\ doc.body[k + 1].space_after >= 2 * C21_BodySpacing
        /\ \A k, l \in C12_NewTables : k < l => l - k >= 3

\* the pass has put two tables after one another and a body paragraph, whose
\* space after is the body spacing
C21_Witness ==
    /\ pc = "returned"
    /\ \E k \in C12_NewTables : k + 3 \in C12_NewTables
    /\ \E k \in 1..Len(doc.body) :
          /\ doc.body[k].type = "p" /\ doc.body[k].runs # <<>>
          /\ doc.body[k].style = StyleNormal
          /\ doc.body[k].space_after = C21_BodySpacing

(***************************************************************************)
(* Properties of the checks of the validator                               *)
(***************************************************************************)

\* the issues of one category, in the order reported
C22_IssuesOf(category) == SelectSeq(issues, LAMBDA i : i.category = category)

\* the heading level of paragraph i of the document, 0 for no heading
C22_Level(i) ==
    LET style_name == Paragraphs(doc)[i].style
    IN  IF style_name = StyleHeading1 THEN 1
        ELSE IF style_name = StyleHeading2 THEN 2
        ELSE IF style_name = StyleHeading3 THEN 3
        ELSE 0

\* the headings before paragraph i
C22_HeadingsBefore(i) == {j \in 1..(i - 1) : C22_Level(j) > 0}

\* the headings more than one level below the heading last before them
C22_Skips ==
    {i \in 1..Len(Paragraphs(doc)) :
        /\ C22_Level(i) > 0
        /\ \E j \in C22_HeadingsBefore(i) :
              /\ \A k \in C22_HeadingsBefore(i) : k <= j
              /\ C22_Level(i) > C22_Level(j) + 1}

\* C22: the 'structure' issues of a validated document are warnings, one for
\* each heading whose level is more than one above the level of the heading
\* last before it, and no other: a first heading, a heading of the same
\* level, a step down and a step up by one give none.
C22_StructureIssueIffLevelSkipped ==
    validate_calls > 0 =>
        LET found == C22_IssuesOf("structure")
        IN  /\ Len(found) = Cardinality(C22_Skips)
            /\ {found[k].location : k \in 1..Len(found)}
                   = {<<"Paragraph", i>> : i \in C22_Skips}
            /\ \A k \in 1..Len(found) :
                  found[k].severity = "warning" /\ ~found[k].auto_fixed

\* a validated document that starts with a Heading 3, goes up to a Heading 1
\* and then skips to a Heading 3 again
C22_Witness ==
    /\ validate_calls > 0
    /\ Len(Paragraphs(doc)) >= 3
    /\ C22_Level(1) = 3 /\ C22_Level(2) = 1 /\ C22_Level(3) = 3
    /\ Len(C22_IssuesOf("structure")) = 1

\* paragraph i of the document has no text but whitespace
C23_IsBlank(i) ==
    /\ i \in 1..Len(Paragraphs(doc))
    /\ Strip(ParaText(Paragraphs(doc)[i])) = <<>>

\* the maximal runs a..b of blank paragraphs
C23_Runs ==
    {ab \in (1..Len(Paragraphs(doc))) \X (1..Len(Paragraphs(doc))) :
        /\ ab[1] <= ab[2]
        /\ \A i \in ab[1]..ab[2] : C23_IsBlank(i)
        /\ ~C23_IsBlank(ab[1] - 1)
        /\ ~C23_IsBlank(ab[2] + 1)}

\* C23: the 'spacing' issues of a validated document are warnings marked
\* auto-fixed, one for each blank paragraph that has two blank paragraphs
\* right before it: a maximal run of k blank paragraphs gives max(0, k - 2)
\* of them, and a paragraph with text starts the count again.
C23_SpacingIssuesPerRun ==
    validate_calls > 0 =>
        LET found == C22_IssuesOf("spacing")
            at == {found[k].location : k \in 1..Len(found)}
        IN  /\ \A k \in 1..Len(found) :
                  found[k].severity = "warning" /\ found[k].auto_fixed
            /\ Len(found) = Cardinality(at)
            /\ at = {<<"Paragraph", i>> : i \in
                        {j \in 1..Len(Paragraphs(doc)) :
                            C23_IsBlank(j) /\ C23_IsBlank(j - 1) /\ C23_IsBlank(j - 2)}}
            /\ \A ab \in C23_Runs :
                  Cardinality({i \in ab[1]..ab[2] : <<"Paragraph", i>> \in at})
                      = Max(0, (ab[2] - ab[1] + 1) - 2)
            /\ (found # <<>>) <=> (\E ab \in C23_Runs : ab[2] - ab[1] + 1 > 2)

\* a validated document of a paragraph with text and a run of three blank
\* paragraphs, with its one issue
C23_Witness ==
    /\ validate_calls > 0
    /\ Len(Paragraphs(doc)) = 4
    /\ <<2, 4>> \in C23_Runs
    /\ Len(C22_IssuesOf("spacing")) = 1
    /\ C22_IssuesOf("spacing")[1].location = <<"Paragraph", 4>>

(***************************************************************************)
(* The spacing of the styles: the style step of apply_brand_to_docx on     *)
(* profiles of every body size                                             *)
(***************************************************************************)

\* the body sizes of the profiles, in points
MinBodySize == 6

MaxBodySize == 48

\* the registered profile with another body size
Resized(id, size) ==
    [BrandRegistry[id] EXCEPT !.styles = [@ EXCEPT !.body = [@ EXCEPT !.size = size]]]

\* the call has loaded its profile and opened a source without blocks
InitSpacing ==
    /\ config_file = "present"
    /\ py_sum = "naive"
    /\ input_file = [kind |-> "docx", body |-> <<>>]
    /\ pc = "styles"
    /\ brand_name \in BrandIds
    /\ output_path = OutPath
    /\ \E size \in MinBodySize..MaxBodySize : brand = Resized(brand_name, size)
    /\ source_doc = [body |-> <<>>]
    /\ elem = 0
    /\ first_h1_seen = FALSE
    /\ tables_to_process = <<>>
    /\ new_blocks = <<>>
    /\ outcome = NoResult
    /\ files = {}
    /\ ValidateIdle
    /\ load_name = <<>>
    /\ load_result = NoResult
    /\ table = NewTable(0, <<>>)
    /\ optimized = FALSE
    /\ BatchIdle

NextSpacing == ApplyStyles

SpecSpacing == InitSpacing /\ [][NextSpacing]_vars

\* the styles have been set
C24_Styled == pc = "copy"

\* (before, after) of a style of the new document
C24_SpacingOf(d, style_name) ==
    <<d.styles[style_name].space_before, d.styles[style_name].space_after>>

\* the styles the program sets a spacing for
C24_SpacedStyles ==
    {StyleNormal, StyleTitle, StyleHeading1, StyleHeading2, StyleHeading3,
     StyleListBullet, StyleListNumber}

\* the role of the spacing table a style stands for
C24_RoleOf(style_name) ==
    IF style_name = StyleHeading1 THEN "h1"
    ELSE IF style_name = StyleHeading2 THEN "h2"
    ELSE IF style_name = StyleHeading3 THEN "h3"
    ELSE IF style_name \in {StyleListBullet, StyleListNumber} THEN "list"
    ELSE "body"

\* the spacing of the style changes with the body size of the profile
C24_ChangesWithBodySize(style_name) ==
    \E size \in MinBodySize..MaxBodySize :
        C24_SpacingOf(StyledDocument(Resized(brand_name, size)), style_name)
            # C24_SpacingOf(doc, style_name)

\* C24 as stated: the spacing of every style the program sets comes from the
\* table of calculate_spacing, at the role of the style, and changes with the
\* body size of the profile.
C24_EverySpacingScaled ==
    C24_Styled =>
        \A style_name \in C24_SpacedStyles \ {StyleTitle} :
            /\ C24_SpacingOf(doc, style_name)
                   = calculate_spacing(brand.styles.body.size, C24_RoleOf(style_name))
            /\ C24_ChangesWithBodySize(style_name)

\* C24: the spacing of Heading 1, 2 and 3 is the body size times 2.0 and
\* 1.5, 1.8 and 0.8, 1.2 and 0.5, cut to whole points, and changes with the
\* body size; the spacing of Normal is 0 and 10 points, of Title 0 and 24, of
\* the two list styles 2 and 2, whatever the body size.
C24_HeadingSpacingScaledOthersFixed ==
    C24_Styled =>
        LET base == brand.styles.body.size
        IN  /\ C24_SpacingOf(doc, StyleHeading1) = <<2 * base, (15 * base) \div 10>>
            /\ C24_SpacingOf(doc, StyleHeading2)
                   = <<(18 * base) \div 10, (8 * base) \div 10>>
            /\ C24_SpacingOf(doc, StyleHeading3)
                   = <<(12 * base) \div 10, (5 * base) \div 10>>
            /\ \A style_name \in {StyleHeading1, StyleHeading2, StyleHeading3} :
                  C24_ChangesWithBodySize(style_name)
            /\ C24_SpacingOf(doc, StyleNormal) = <<0, 10>>
            /\ C24_SpacingOf(doc, StyleTitle) = <<0, 24>>
            /\ C24_SpacingOf(doc, StyleListBullet) = <<2, 2>>
            /\ C24_SpacingOf(doc, StyleListNumber) = <<2, 2>>
            /\ \A style_name \in {StyleNormal, StyleTitle, StyleListBullet,
                                  StyleListNumber} :
                  ~C24_ChangesWithBodySize(style_name)

\* the styles are set from a profile with a body of 14 points
C24_Witness ==
    /\ C24_Styled
    /\ brand.styles.body.size = 14
    /\ C24_SpacingOf(doc, StyleHeading1) = <<28, 21>>
    /\ C24_SpacingOf(doc, StyleNormal) = <<0, 10>>

(***************************************************************************)
(* The validation of the rebuilt document                                  *)
(***************************************************************************)

\* the rows of table t do not all have the same number of cells
C25_IsRagged(t) ==
    \E r1, r2 \in 1..Len(t.rows) : Len(t.rows[r1].cells) # Len(t.rows[r2].cells)

\* C25: every table of the rebuilt document has as many cells in each row as
\* the table has columns, whatever the rows of the source table; the issues
\* of its validation hold no critical one, the only critical issue being the
\* one on the cell counts; and the level the call returns is not FAILED.
C25_NeverFailed ==
    /\ C4_InPass =>
           \A k \in C12_NewTables : \A r \in 1..Len(doc.body[k].rows) :
               Len(doc.body[k].rows[r].cells) = doc.body[k].grid_cols
    /\ pc \in {"save", "returned"} =>
           /\ \A k \in 1..Len(issues) : issues[k].severity # "critical"
           /\ quality_level \in {"PERFECT", "ACCEPTABLE", "NEEDS_ATTENTION"}
    /\ pc = "returned" => outcome.value[2] = quality_level

\* a call has returned on a source with a table whose rows differ in length
C25_Witness ==
    /\ pc = "returned"
    /\ \E i \in 1..Len(source_doc.body) :
          /\ source_doc.body[i].type = "tbl"
          /\ C25_IsRagged(source_doc.body[i])
          /\ new_blocks[i] \in C12_NewTables
          /\ ~C25_IsRagged(doc.body[new_blocks[i]])

\* source blocks i < j are tables and no block between them is in the output
C26_TablesInARow(i, j) ==
    /\ i < j
    /\ source_doc.body[i].type = "tbl"
    /\ source_doc.body[j].type = "tbl"
    /\ \A k \in (i + 1)..(j - 1) : new_blocks[k] = 0

\* the issues on the empty paragraphs
C26_SpacingIssues ==
    {k \in 1..Len(issues) :
        /\ issues[k].category = "spacing"
        /\ issues[k].message[1] = "excessive empty paragraphs"}

\* the level that the issues other than those on the empty paragraphs give
C26_LevelOfTheRest ==
    LET rest == (1..Len(issues)) \ C26_SpacingIssues
        critical == {k \in rest : issues[k].severity = "critical" /\ ~issues[k].auto_fixed}
        warning == {k \in rest : issues[k].severity = "warning" /\ ~issues[k].auto_fixed}
    IN  IF critical # {} THEN "FAILED"
        ELSE IF Cardinality(warning) > 3 THEN "NEEDS_ATTENTION"
        ELSE IF warning # {} THEN "ACCEPTABLE"
        ELSE "PERFECT"

\* C26: when the source has two tables with no paragraph of the output
\* between them, the output has the spacer after the first table and the
\* spacer before the second one right after the spacer before the first in
\* its paragraphs, and its validation reports at least one issue on
\* excessive empty paragraphs; these issues are marked auto-fixed and the
\* level is the one the other issues give.
C26_AdjacentTablesFlagged ==
    pc \in {"save", "returned"} =>
        /\ \A i, j \in 1..Len(source_doc.body) :
              C26_TablesInARow(i, j) =>
                  /\ C21_IsEmptyPara(new_blocks[i] - 1)
                  /\ C21_IsEmptyPara(new_blocks[i] + 1)
                  /\ C21_IsEmptyPara(new_blocks[i] + 2)
                  /\ new_blocks[j] = new_blocks[i] + 3
                  /\ C26_SpacingIssues # {}
        /\ \A k \in C26_SpacingIssues : issues[k].auto_fixed
        /\ quality_level = C26_LevelOfTheRest

\* a call has returned on a source of two tables and nothing else, with
\* issues on the empty paragraphs only
C26_Witness ==
    /\ pc = "returned"
    /\ Len(source_doc.body) = 2
    /\ C26_TablesInARow(1, 2)
    /\ Cardinality(C26_SpacingIssues) = 2
    /\ Len(issues) = 2
    /\ quality_level = "PERFECT"

\* C27: a call of validate_document on a validator that has validated the
\* same, unchanged document before returns the level and the issue list the
\* earlier call returned: nothing of the earlier list is added to the later.
C27_SecondCallSameResult ==
    [][validate_calls >= 1 /\ validate_calls' = validate_calls + 1 /\ doc' = doc
           => issues' = issues /\ quality_level' = quality_level]_vars

\* one validator has validated a document with issues twice
C27_Witness ==
    /\ validate_calls = 2
    /\ Len(issues) >= 2
    /\ quality_level # "PERFECT"
    /\ pc = "idle"

\* C28: the rebuilt document has margins of 1 inch at the top and the
\* bottom and of 1.25 inches at the left and the right, whatever the brand
\* and the source, and its validation reports no issue on the page layout.
C28_MarginsSetNoLayoutIssue ==
    /\ C4_InPass =>
           /\ doc.top_margin = Inches100(100) /\ doc.bottom_margin = Inches100(100)
           /\ doc.left_margin = Inches100(125) /\ doc.right_margin = Inches100(125)
    /\ pc \in {"save", "returned"} =>
           \A k \in 1..Len(issues) : issues[k].category # "layout"
    /\ pc = "returned" =>
           \A f \in files : f.doc.left_margin = Inches100(125)

\* a call with the second brand has returned on a source with blocks
C28_Witness ==
    /\ pc = "returned"
    /\ brand = BrandRegistry[Globex]
    /\ source_doc.body # <<>>
    /\ validate_calls = 1
    /\ files # {}

(***************************************************************************)
(* main(): the runs of the script with an input path, a brand argument and *)
(* an output argument                                                      *)
(***************************************************************************)

\* s.split(sep) for a separator of one character
RECURSIVE SplitOn(_, _)
SplitOn(s, sep) ==
    IF \E i \in 1..Len(s) : s[i] = sep
    THEN LET i == CHOOSE i \in 1..Len(s) :
                      s[i] = sep /\ \A k \in 1..(i - 1) : s[k] # sep
         IN  <<SubSeq(s, 1, i - 1)>> \o SplitOn(SubSeq(s, i + 1, Len(s)), sep)
    ELSE <<s>>

WordAll == <<"a", "l", "l">>

\* get_all_brands(): the ids in the order of the registry file
get_all_brands == <<Acme, Globex>>

\* brand_arg = sys.argv[2].lower() (1126)
brand_arg == Lower(argv[2])

\* the branch of main the brand argument selects (1145, 1159, 1172)
Mode ==
    IF brand_arg = WordAll THEN "all"
    ELSE IF Contains(brand_arg, <<",">>) THEN "multiple"
    ELSE "single"

\* an exit code that tells a batch without results from one with results
exit_after_batch_by_results(created) == IF created = <<>> THEN 1 ELSE 0

\* what main returns once apply_multiple_brands has returned (1200)
exit_after_batch(created) == 0

\* main returns code
MainReturn(code) ==
    /\ main_pc' = "exited"
    /\ exit_code' = [kind |-> "return", value |-> code]

\* the tests on the input path (1129-1135): the path exists and ends in
\* '.docx' whatever its case
MainCheckInput ==
    /\ main_pc = "start"
    /\ IF input_file.kind = "missing" \/ ~EndsWith(Lower(argv[1]), DotDocx)
       THEN /\ MainReturn(1)
            /\ stdout' = Append(stdout, [kind |-> "fatal", exc |-> "none"])
       ELSE /\ main_pc' = "dispatch"
            /\ exit_code' = exit_code
            /\ stdout' = stdout
    /\ UNCHANGED <<argv, batch_pc, brands, output_prefix, brand_index, results,
                   apply_vars, validate_vars, load_vars, width_vars>>

\* the all-brands and the multiple-brands branches up to the call of
\* apply_multiple_brands (1145-1153, 1159-1167); get_all_brands raises
\* FileNotFoundError without the registry file
MainCallBatch ==
    /\ main_pc = "dispatch"
    /\ Mode \in {"all", "multiple"}
    /\ IF Mode = "all" /\ config_file = "missing"
       THEN /\ MainReturn(1)
            /\ stdout' = Append(stdout, [kind |-> "fatal", exc |-> "FileNotFoundError"])
            /\ UNCHANGED <<batch_pc, brands, output_prefix, brand_index, results>>
       ELSE /\ brands' = IF Mode = "all" THEN get_all_brands
                         ELSE LET parts == SplitOn(brand_arg, ",")
                              IN  [n \in 1..Len(parts) |-> Strip(parts[n])]
            /\ output_prefix' = argv[3]
            /\ batch_pc' = "loop"
            /\ brand_index' = 1
            /\ results' = <<>>
            /\ main_pc' = "batch"
            /\ exit_code' = exit_code
            /\ stdout' = stdout
    /\ UNCHANGED <<argv, apply_vars, validate_vars, load_vars, width_vars>>

\* apply_multiple_brands is over: the summary line and return 0 (1155-1157,
\* 1169-1170, 1200), or the except clauses of main if it raised
MainBatchDone ==
    /\ main_pc = "batch"
    /\ batch_pc \in {"returned", "raised"}
    /\ IF batch_pc = "returned"
       THEN /\ MainReturn(exit_after_batch(results))
            /\ stdout' = Append(stdout, [kind |-> "summary", created |-> Len(results)])
       ELSE /\ MainReturn(1)
            /\ stdout' = Append(stdout, [kind |-> "fatal", exc |-> outcome.exc])
    /\ UNCHANGED <<argv, batch_pc, brands, output_prefix, brand_index, results,
                   apply_vars, validate_vars, load_vars, width_vars>>

\* the single-brand branch up to the call of apply_brand_to_docx
\* (1172-1181): load_brand_config for the name to print, then the call
MainCallSingle ==
    /\ main_pc = "dispatch"
    /\ Mode = "single"
    /\ LET r == load_brand_config(config_file, brand_arg)
       IN  IF r.kind = "raise"
           THEN /\ MainReturn(1)
                /\ stdout' = Append(stdout, [kind |-> "fatal", exc |-> r.exc])
                /\ UNCHANGED <<pc, brand_name, output_path, brand, source_doc, elem,
                               first_h1_seen, tables_to_process, new_blocks, outcome,
                               validate_vars>>
           ELSE /\ EnterCall(brand_arg, argv[3])
                /\ main_pc' = "single"
                /\ exit_code' = exit_code
                /\ stdout' = stdout
    /\ UNCHANGED <<argv, batch_pc, brands, output_prefix, brand_index, results,
                   files, input_file, load_vars, width_vars>>

\* apply_brand_to_docx is over: the report and return 0 (1183-1200), or the
\* except clauses of main and return 1 (1202-1212)
MainSingleDone ==
    /\ main_pc = "single"
    /\ pc \in {"returned", "raised"}
    /\ IF pc = "returned"
       THEN /\ MainReturn(0)
            /\ stdout' = Append(stdout, [kind |-> "created", path |-> outcome.value[1],
                                         quality |-> outcome.value[2]])
       ELSE /\ MainReturn(1)
            /\ stdout' = Append(stdout, [kind |-> "fatal", exc |-> outcome.exc])
    /\ UNCHANGED <<argv, batch_pc, brands, output_prefix, brand_index, results,
                   apply_vars, validate_vars, load_vars, width_vars>>

NextMain ==
    \/ MainCheckInput
    \/ MainCallBatch
    \/ MainBatchDone
    \/ MainCallSingle
    \/ MainSingleDone
    \/ NextBatch

\* the input paths: a '.docx' name and another name
InputPaths == { <<"a", ".", "d", "o", "c", "x">>, <<"a", ".", "d", "o", "c">> }

\* the brand arguments: every brand, lists with and without a registered id,
\* single ids, registered and not
BrandArgs ==
    { WordAll, <<"A", "L", "L">>,
      <<"a", "c", "m", "e", ",", "x">>,
      <<"x", ",", " ", "x">>,
      <<"A", "c", "m", "e", ",", " ", "G", "l", "o", "b", "e", "x">>,
      Acme, GlobexUpper, <<"x">> }

\* the run starts: an input file or none, and the three arguments
InitMain ==
    /\ config_file \in {"present", "missing"}
    /\ py_sum = "naive"
    /\ input_file \in BatchInputs \cup {[kind |-> "malformed"]}
    /\ main_pc = "start"
    /\ argv \in {<<input_path, arg, out>> :
                    input_path \in InputPaths, arg \in BrandArgs,
                    out \in {<<"o", "u", "t">>, OutPath}}
    /\ exit_code = NoResult
    /\ batch_pc = "idle"
    /\ brands = <<>>
    /\ output_prefix = <<>>
    /\ brand_index = 0
    /\ results = <<>>
    /\ stdout = <<>>
    /\ pc = "idle"
    /\ brand_name = <<>>
    /\ output_path = <<>>
    /\ brand = NoResult
    /\ source_doc = NoResult
    /\ elem = 0
    /\ first_h1_seen = FALSE
    /\ tables_to_process = <<>>
    /\ new_blocks = <<>>
    /\ outcome = NoResult
    /\ files = {}
    /\ ValidateIdle
    /\ load_name = <<>>
    /\ load_result = NoResult
    /\ table = NewTable(0, <<>>)
    /\ optimized = FALSE

SpecMain == InitMain /\ [][NextMain]_vars

\* the run is past the tests on the input path
C29_InputPassed ==
    input_file.kind # "missing" /\ argv[1] = <<"a", ".", "d", "o", "c", "x">>

\* C29 as stated: once apply_multiple_brands has returned main returns 0,
\* and only a run for a single brand returns 1 on an error of the brand or
\* of the input.
C29_OnlySingleBrandFails ==
    main_pc = "exited" =>
        /\ batch_pc = "returned" => exit_code.value = 0
        /\ exit_code.value = 1 => Mode = "single"

\* C29: once apply_multiple_brands has returned main returns 0, also when
\* the result list is empty.  A run for several brands or for all returns 1
\* exactly when the input path does not exist or does not end in '.docx', or
\* when it is for all brands and the registry file is missing: in these runs
\* apply_multiple_brands is not called.  A run for a single brand returns 0
\* exactly when the input passes the tests, the brand is registered and the
\* input is a document; every error of the brand or of the input gives 1.
C29_ExitCodes ==
    main_pc = "exited" =>
        /\ exit_code.value \in {0, 1}
        /\ batch_pc = "returned" => exit_code.value = 0
        /\ IF Mode = "single"
           THEN /\ batch_pc = "idle"
                /\ exit_code.value = 0 <=>
                      /\ C29_InputPassed
                      /\ config_file = "present"
                      /\ brand_arg \in BrandIds
                      /\ input_file.kind = "docx"
           ELSE /\ exit_code.value = 1 <=>
                      \/ ~C29_InputPassed
                      \/ Mode = "all" /\ config_file = "missing"
                /\ exit_code.value = 1 <=> batch_pc = "idle"
                /\ exit_code.value = 0 <=> batch_pc = "returned"

\* a run for two brands on a file that is no document has ended: both brands
\* failed, no result, no file, and main returned 0
C29_Witness ==
    /\ main_pc = "exited"
    /\ Mode = "multiple"
    /\ input_file.kind = "malformed"
    /\ Len(brands) = 2
    /\ batch_pc = "returned"
    /\ results = <<>>
    /\ files = {}
    /\ exit_code.value = 0

(***************************************************************************)
(* Calls of _optimize_column_widths on tables without text                 *)
(***************************************************************************)

\* most columns of a table without text
MaxEmptyCols == 8

\* most rows of a table without text
MaxEmptyRows == 2

\* a cell without text: no run, or a run of one blank
EmptyCells == {CellOfLength(0), NewCell(<<NewParagraph(StyleNormal, <<NewRun(<<" ">>)>>)>>)}

\* a table of no row, or of rows whose cells all are without text
InitEmptyWidths ==
    /\ py_sum \in {"naive", "neumaier"}
    /\ \E cols \in 0..MaxEmptyCols, rows \in 0..MaxEmptyRows, cell \in EmptyCells :
           table = NewTable(cols, [r \in 1..rows |-> NewRow([j \in 1..cols |-> cell])])
    /\ optimized = FALSE
    /\ LoadIdle
    /\ ValidateIdle
    /\ ApplyIdle
    /\ BatchIdle

NextEmptyWidths == OptimizeColumnWidths

SpecEmptyWidths == InitEmptyWidths /\ [][NextEmptyWidths]_vars

\* the widths of the cells of the table
C30_Widths ==
    UNION {{table.rows[r].cells[j].width : j \in 1..Len(table.rows[r].cells)} :
              r \in 1..Len(table.rows)}

\* C30 as stated: after _optimize_column_widths, every cell of a table with
\* rows and without text has the width int(5000 / number of columns), and a
\* table without rows is as it was.
C30_EqualWidthsOfQuotient ==
    optimized =>
        /\ table.rows # <<>> /\ table.grid_cols > 0 =>
              C30_Widths = {5000 \div table.grid_cols}
        /\ table.rows = <<>> => table = NewTable(table.grid_cols, <<>>)

\* C30: after _optimize_column_widths, all cells of a table with rows and
\* without text have the same width, which is int(5000 / number of columns)
\* except for five columns, where it is 999; a table with rows of no cell
\* gets no width; and a table without rows is as it was.
C30_EqualWidthsNearQuotient ==
    optimized =>
        /\ table.rows # <<>> /\ table.grid_cols > 0 =>
              C30_Widths = {IF table.grid_cols = 5 THEN 999
                            ELSE 5000 \div table.grid_cols}
        /\ table.rows # <<>> /\ table.grid_cols = 0 => C30_Widths = {}
        /\ table.rows = <<>> => table = NewTable(table.grid_cols, <<>>)

\* the widths of a table of two rows of three columns without text are set
C30_Witness ==
    /\ optimized
    /\ Len(table.rows) = 2
    /\ table.grid_cols = 3
    /\ C30_Widths = {1666}
    /\ pc = "idle"

=============================================================================
